---- MODULE Spec2Model ----
(***************************************************************************)
(* The reactive scope of src/src/scope/scope.js as a state machine.        *)
(*                                                                         *)
(* JavaScript runs one call at a time, so the model keeps an explicit call *)
(* stack: a frame per running $digest, $apply, $$flushApplyAsync, $emit,   *)
(* $broadcast or $destroy call, with the position of the call in its code. *)
(* Callbacks (watch functions, listeners, queued tasks) are user code; a   *)
(* callback is modelled by its effect, one operation on the scope tree or  *)
(* on the watched data.                                                    *)
(***************************************************************************)
EXTENDS Integers, Sequences, FiniteSets, TLC

VARIABLES
  scope,            \* the Scope objects, by id: root, parent, proto, children, watchers,
                    \* listeners ($$listeners: an array of listener ids per event
                    \* name; 0: null), held (the $$listeners objects $destroy
                    \* replaced, which running loops may still hold), phase,
                    \* queues (whose constructor made the three queue arrays the
                    \* scope holds; 0: it holds none and reads its prototype's),
                    \* attr (the attribute the application sets)
  wdef,             \* the watcher objects, by id: scope, watchFn, listenerFn, valueEq
  ldef,             \* the event listeners registered with $on, by id: scope, event
                    \* name, function
  group,            \* the closures of the $watchGroup calls, by id: the scope and
                    \* listenerFn of the call, the watchers it registered (whose
                    \* destructors are destroyFns), newValues, oldValues,
                    \* changeReactionScheduled, firstRun, shouldCall
  coll,             \* the closures of the $watchCollection calls, by id: the value
                    \* its watchFn reads, listenerFn, newValue, oldValue, oldLength,
                    \* veryOldValue, trackVeryOldValue, changeCount, firstRun
  once,             \* the closures of the one-time watch delegates: delegates, by
                    \* id (the watcher, listenerFn, whether the expression is a
                    \* literal, the values its elements read, lastValue), and checks,
                    \* the functions they passed to $$postDigest, each with the
                    \* newValue its listener was called with
  tracked,          \* the closures of the inputs delegates, by id: the watcher, the
                    \* expression, oldValues, lastResult, and how often the full
                    \* expression was computed
  compiled,         \* the expressions compiled so far: the program and the fields
                    \* constant, literal and inputs of the function made of it
  last,             \* watcher.last, by watcher id
  data,             \* the values the watch functions read
  asyncQueue,       \* $$asyncQueue (one array, shared by the tree)
  applyAsyncQueue,  \* $$applyAsyncQueue
  postDigestQueue,  \* $$postDigestQueue
  lastDirtyWatch,   \* $root.$$lastDirtyWatch (0: null)
  applyAsyncId,     \* $root.$$applyAsyncId: the id setTimeout returned (0: null)
  timers,           \* pending setTimeout callbacks: eval, how many of $evalAsync;
                    \* apply, those of $applyAsync, each with its id and its scope
  stack,            \* the call stack
  ret,              \* how the last call that returned ended: "ok" or the error thrown
  hist              \* what an observer of the run has noted (no part of the program)

heap == <<scope, wdef, ldef, group, coll, once, tracked, compiled, last, data, asyncQueue, applyAsyncQueue, postDigestQueue,
          lastDirtyWatch, applyAsyncId, timers>>
vars == <<scope, wdef, ldef, group, coll, once, tracked, compiled, last, data, asyncQueue, applyAsyncQueue, postDigestQueue,
          lastDirtyWatch, applyAsyncId, timers, stack, ret, hist>>

-----------------------------------------------------------------------------
(* Values.  Numbers are the naturals; undefined, NaN and the initial watch  *)
(* value (a Symbol, equal to nothing but itself) are coded below zero.      *)

UNDEFINED == -1
NAN == -2
INIT_WATCH_VALUE == -3
\* a property the object does not have itself
ABSENT == -4

\* the function every oldValues entry of an inputs delegate holds at first
NoValue == -5

\* TTL of $digest
TTL == 10

\* bounds of the model
MaxDepth == 3
MaxWatchers == 3
MaxQueue == MaxWatchers + 1
MaxLimit == 10
MaxTimers == 1
MaxApplyTimers == 2
MaxScopes == 3
MaxFlat == 2
MaxListeners == 3
MaxPending == 2
MaxGroups == 1
MaxKeys == 2
MaxItems == 2
MaxFirings == 2
MaxChecks == 2
MaxOnce == 1
MaxMade == 3

ROOT == 1

\* the event names: 'someEvent' and '$destroy'
SomeEvent == 1
DestroyEvent == 2
EventNames == {SomeEvent, DestroyEvent}

\* $$listeners[name] of a name nothing was registered for
NoArray == <<ABSENT>>

\* $$listeners = {}
NoListeners == [n \in EventNames |-> NoArray]

\* the array the literal [x, y] makes of two values out of NaN, undefined, 0 and
\* 1: its elements, and which array it is (0: one that nothing else holds; n: the
\* one an inputs delegate keeps in lastResult since its n-th computation)
ArrayBase == 100
ArraySpan == 16
Literal(x, y) == ArrayBase + 4 * (x + 2) + (y + 2)
Content(array) == (array - ArrayBase) % ArraySpan
Ident(array) == (array - ArrayBase) \div ArraySpan
Kept(array, n) == ArrayBase + ArraySpan * n + Content(array)
Elements(array) == <<(Content(array) \div 4) - 2, (Content(array) % 4) - 2>>
isArrayValue(v) == v >= ArrayBase

\* lodash cloneDeep: another array with the same elements
cloneDeep(v) == IF isArrayValue(v) THEN Kept(v, 0) ELSE v

\* !some(val, isUndefined)
isAllDefined(val) == \A i \in 1..2 : Elements(val)[i] # UNDEFINED

\* JavaScript's ===: NaN is equal to nothing, an array a literal has just made
\* to no other object
StrictEq(a, b) == a = b /\ a # NAN /\ (isArrayValue(a) => Ident(a) > 0)

simpleCompare(newValue, oldValue) ==
  StrictEq(newValue, oldValue) \/ (newValue = NAN /\ oldValue = NAN)

\* lodash isEqual on the values of the model (NaN equals NaN, arrays by element)
isEqual(a, b) ==
  IF isArrayValue(a) /\ isArrayValue(b) THEN Content(a) = Content(b) ELSE a = b

\* a + b of JavaScript on NaN, undefined, 0 and 1
Plus(x, y) == IF x < 0 \/ y < 0 THEN NAN ELSE x + y

\* the full expression: 'a + b' or the literal '[a, b]', a and b being the first
\* two properties of the scope
Compute(expr, d) == IF expr = "a + b" THEN Plus(d[1], d[2]) ELSE Literal(d[1], d[2])

\* expressionInputDirtyCheck without the test for NaN
InputDirtyCheckNoNaN(newValue, oldValue) ==
  StrictEq(newValue, oldValue)

\* expressionInputDirtyCheck
expressionInputDirtyCheck(newValue, oldValue) ==
  StrictEq(newValue, oldValue) \/ (newValue = NAN /\ oldValue = NAN)

\* the forEach over inputsExpressions from input i on: changed, and oldValues
RECURSIVE InputsFrom(_, _, _, _)
InputsFrom(i, changed, oldValues, d) ==
  IF i > Len(oldValues) THEN [changed |-> changed, oldValues |-> oldValues]
  ELSE IF changed \/ ~expressionInputDirtyCheck(d[i], oldValues[i])
    THEN InputsFrom(i + 1, TRUE, [oldValues EXCEPT ![i] = d[i]], d)
    ELSE InputsFrom(i + 1, changed, oldValues, d)

\* the watchFn of inputsWatchDelegate on the closure c: lastResult is computed
\* again when an input changed
InputsWatchFn(c, d) ==
  LET r == InputsFrom(1, FALSE, c.oldValues, d)
      result == Compute(c.expr, d)
  IN IF r.changed
       THEN [c EXCEPT !.oldValues = r.oldValues,
                      !.made = @ + 1,
                      !.lastResult = IF isArrayValue(result)
                                       THEN Kept(result, c.made + 1) ELSE result]
       ELSE c

areEqual(newValue, oldValue, valueEq) ==
  IF valueEq THEN isEqual(newValue, oldValue) ELSE simpleCompare(newValue, oldValue)

-----------------------------------------------------------------------------
(* The values $watchCollection tells apart: primitives (v is the number,     *)
(* undefined, null or NaN), arrays and array-like objects (items), plain     *)
(* objects (props: the value of each of the MaxKeys property names, ABSENT   *)
(* where the object has no such own property) and functions (v tells one     *)
(* function from another; they have no enumerable own property).             *)

Value(kind, v, items, props) == [kind |-> kind, v |-> v, items |-> items, props |-> props]
NoProps == [k \in 1..MaxKeys |-> ABSENT]
Prim(v) == Value("prim", v, <<>>, NoProps)
Arr(items) == Value("array", 0, items, NoProps)
ArrLike(items) == Value("arrayLike", 0, items, NoProps)
Obj(props) == Value("object", 0, <<>>, props)
Fun(id) == Value("function", id, <<>>, NoProps)

\* lodash isObject: true of arrays, objects and functions
isObject(value) == value.kind \in {"array", "arrayLike", "object", "function"}

\* Scope.$$isArrayLike: an array, or typeof 'object' with a fitting own length
isArrayLike(item) == item.kind \in {"array", "arrayLike"}

isArray(value) == value.kind = "array"

\* the own enumerable property names forOwn walks
OwnKeys(value) == {k \in 1..MaxKeys : value.props[k] # ABSENT}

\* Number.isNaN(a) && Number.isNaN(b)
BothNaN(a, b) == a = NAN /\ b = NAN

\* Scope.$$areEqual(oldValue, newValue, false) with a primitive newValue: an
\* array or object is === to no primitive
AreEqualPrim(oldValue, newValue) ==
  oldValue.kind = "prim" /\ areEqual(oldValue.v, newValue.v, FALSE)

\* what a call of internalWatchFn makes of the closure c when parsedWatchFn
\* returns value
InternalWatchFn(c, value) ==
  IF isObject(value)
    THEN IF isArrayLike(value)
      THEN LET c1 == IF ~isArray(c.oldValue)
                       THEN [c EXCEPT !.changeCount = @ + 1, !.oldValue = Arr(<<>>)]
                       ELSE c
               n == Len(value.items)
               was == c1.oldValue.items
               \* oldValue.length = newValue.length: cut, or filled with holes
               c2 == IF n # Len(was)
                       THEN [c1 EXCEPT !.changeCount = @ + 1,
                                       !.oldValue.items =
                                          [i \in 1..n |-> IF i <= Len(was) THEN was[i]
                                                          ELSE UNDEFINED]]
                       ELSE c1
               differ == {i \in 1..n : /\ ~BothNaN(value.items[i], c2.oldValue.items[i])
                                       /\ ~StrictEq(c2.oldValue.items[i], value.items[i])}
           IN [c2 EXCEPT !.changeCount = @ + Cardinality(differ),
                         !.oldValue.items =
                            [i \in 1..n |-> IF i \in differ THEN value.items[i] ELSE @[i]],
                         !.newValue = value]
      ELSE LET c1 == IF ~isObject(c.oldValue) \/ isArrayLike(c.oldValue)
                       THEN [c EXCEPT !.changeCount = @ + 1, !.oldValue = Obj(NoProps),
                                      !.oldLength = 0]
                       ELSE c
               newLength == Cardinality(OwnKeys(value))
               replaced == {k \in OwnKeys(value) \cap OwnKeys(c1.oldValue) :
                              /\ ~BothNaN(value.props[k], c1.oldValue.props[k])
                              /\ ~StrictEq(value.props[k], c1.oldValue.props[k])}
               added == OwnKeys(value) \ OwnKeys(c1.oldValue)
               c2 == [c1 EXCEPT !.changeCount = @ + Cardinality(replaced) + Cardinality(added),
                                !.oldLength = @ + Cardinality(added),
                                !.oldValue.props =
                                   [k \in 1..MaxKeys |->
                                      IF k \in replaced \cup added THEN value.props[k]
                                      ELSE @[k]]]
               removed == OwnKeys(c2.oldValue) \ OwnKeys(value)
               c3 == IF c2.oldLength > newLength
                       THEN [c2 EXCEPT !.changeCount = @ + 1 + Cardinality(removed),
                                       !.oldLength = @ - Cardinality(removed),
                                       !.oldValue.props =
                                          [k \in 1..MaxKeys |->
                                             IF k \in removed THEN ABSENT ELSE @[k]]]
                       ELSE c2
           IN [c3 EXCEPT !.newValue = value]
    ELSE [c EXCEPT !.changeCount = IF AreEqualPrim(c.oldValue, value) THEN @ ELSE @ + 1,
                   !.oldValue = value,
                   !.newValue = value]

-----------------------------------------------------------------------------
(* Callbacks.  An effect is [op, a, b]; Task(t) is the effect of the        *)
(* function number t of the program under test.                             *)

E(op, a, b) == [op |-> op, a |-> a, b |-> b]
None == E("none", 0, 0)

\* the functions $watchGroup passes to $evalAsync have the numbers above this one
GroupTask == 8

\* and those the one-time delegates pass to $$postDigest the numbers above this
OnceTask == GroupTask + MaxGroups + 1

Task(t) ==
  CASE t = 1 -> None
    [] t = 2 -> E("throw", 0, 0)
    [] t = 3 -> E("incTo", 1, 3)            \* if (data[1] < data[3]) data[1]++
    [] t = 4 -> E("evalAsync", 0, 4)        \* re-enqueues itself
    [] t = 5 -> E("copy", 2, 1)             \* data[2] = data[1]
    [] t = 6 -> E("applyAsync", 0, 1)       \* $applyAsync of a function that does nothing
    [] t = 7 -> E("digest", ROOT, 0)        \* $root.$digest()
    [] t = 8 -> E("set", 1, 1)              \* data[1] = 1
    [] t > OnceTask ->                      \* what a delegate passed to $$postDigest
         E("oneTimeCheck", t - OnceTask, 0)
    [] t > GroupTask /\ t <= OnceTask ->    \* what $watchGroup passed to $evalAsync
         E(IF group[t - GroupTask].watchers = <<>> THEN "zeroWatch"
           ELSE "watchGroupListener", t - GroupTask, 0)
    [] OTHER -> None

IsCall(e) == e.op \in {"digest", "apply", "flush", "emit", "broadcast", "destroy"}

\* scope.attr, read through the prototype chain
RECURSIVE ReadAttr(_)
ReadAttr(s) ==
  IF scope[s].attr # ABSENT THEN scope[s].attr
  ELSE IF scope[s].proto = 0 THEN UNDEFINED
  ELSE ReadAttr(scope[s].proto)

\* the queue arrays scope s uses, read through the prototype chain
RECURSIVE ReadQueues(_)
ReadQueues(s) ==
  IF scope[s].queues # 0 THEN scope[s].queues ELSE ReadQueues(scope[s].proto)

\* a property read through the prototype chain
RECURSIVE ReadPhase(_)
ReadPhase(s) ==
  IF scope[s].phase # "absent" THEN scope[s].phase ELSE ReadPhase(scope[s].proto)

IndexOf(seq, x) ==
  IF \E i \in 1..Len(seq) : seq[i] = x
    THEN CHOOSE i \in 1..Len(seq) : seq[i] = x /\ \A j \in 1..(i - 1) : seq[j] # x
    ELSE 0

Splice(seq, i) == SubSeq(seq, 1, i - 1) \o SubSeq(seq, i + 1, Len(seq))

\* the scope an effect acts on: its own, or the one the callback was given
On(e, arg) == IF e.a = 0 THEN arg ELSE e.a

\* what a callback does when it runs: calling the destructor of a watcher that is
\* not registered yet calls undefined, a TypeError; so is the indexOf of the
\* destructor when $destroy has set the scope's $$watchers to null, and the
\* indexOf of the destroyer when $destroy has replaced $$listeners
Resolve(e) ==
  IF \/ e.op = "rm" /\ e.a > Len(wdef)
     \/ e.op = "rm" /\ e.a <= Len(wdef) /\ scope[wdef[e.a].s].destroyed
     \/ e.op = "off" /\ e.a > Len(ldef)
     \/ e.op = "off" /\ e.a <= Len(ldef)
          /\ scope[ldef[e.a].s].listeners[ldef[e.a].name] = NoArray
     \/ e.op = "ungroup" /\ e.a > Len(group)
     \/ e.op = "ungroup" /\ e.a <= Len(group) /\ group[e.a].watchers # <<>>
          /\ scope[group[e.a].s].destroyed
    THEN E("throw", 0, 0) ELSE e

\* an empty slot for a queued task
NoTask == [scope |-> 0, expression |-> 0, by |-> <<0, 0>>]

-----------------------------------------------------------------------------
(* What a callback's operation does to the scope tree and the data.  The    *)
(* operations that are calls of $digest, $apply or $$flushApplyAsync push   *)
(* a frame instead (Invoke).                                                *)

\* Unwatch that removes nothing
UnwatchNoSplice(sc, w) == sc

\* the destructor returned by $watch
Unwatch(sc, w) ==
  LET s == wdef[w].s
      index == IndexOf(sc[s].watchers, w)
  IN IF index > 0 THEN [sc EXCEPT ![s].watchers = Splice(@, index)] ELSE sc

UnwatchFinds(w) == IndexOf(scope[wdef[w].s].watchers, w) > 0

\* the listener of a one-time delegate passes a function to $$postDigest after
\* listenerFn returned, if its newValue is defined (a literal: all of it)
Schedules(e) ==
  /\ e.op = "oneTimeListener"
  /\ once.delegates[e.a].fn.op # "throw"
  /\ IF once.delegates[e.a].literal THEN isAllDefined(stack[Len(stack)].nv)
     ELSE stack[Len(stack)].nv # UNDEFINED

ChecksAfter(e) ==
  IF Schedules(e) THEN <<OnceTask + Len(once.checks) + 1>> ELSE <<>>

\* the closures of the one-time delegates after a callback: the listener of
\* oneTimeWatchDelegate stores lastValue = newValue first
OnceAfter(e) ==
  IF e.op = "oneTimeListener"
    THEN [once EXCEPT
            !.delegates[e.a].lastValue =
               IF once.delegates[e.a].literal THEN @ ELSE stack[Len(stack)].nv,
            !.checks = IF Schedules(e)
                         THEN Append(@, [o |-> e.a, newValue |-> stack[Len(stack)].nv])
                         ELSE @]
    ELSE once

\* the closures of the inputs delegates after a callback
TrackedAfter(e) ==
  IF e.op = "inputsWatchFn"
    THEN [tracked EXCEPT ![e.a] = InputsWatchFn(@, data)]
    ELSE tracked

\* the closures of $watchCollection after a callback: internalWatchFn reads the
\* value and compares; internalListenerFn clears firstRun and, if listenerFn
\* returns and declares an oldValue parameter, keeps a clone of newValue
CollAfter(e) ==
  CASE e.op = "internalWatchFn" ->
         [coll EXCEPT ![e.a] = InternalWatchFn(@, data[@.x])]
    [] e.op = "internalListenerFn" ->
         [coll EXCEPT ![e.a].firstRun = FALSE,
                      ![e.a].veryOldValue =
                         IF coll[e.a].trackVeryOldValue /\ coll[e.a].fn.op # "throw"
                           THEN coll[e.a].newValue ELSE @]
    [] OTHER -> coll

\* destroyFns.forEach((destroyFn) => destroyFn()) of the destructor of $watchGroup
RECURSIVE UnwatchAll(_, _)
UnwatchAll(sc, ws) ==
  IF ws = <<>> THEN sc ELSE UnwatchAll(Unwatch(sc, Head(ws)), Tail(ws))

\* what a function made by $watchGroup calls: watchGroupListener calls listenerFn,
\* the task of an empty group calls it if (shouldCall), the listener of a watcher
\* of the group calls this.$evalAsync(watchGroupListener) unless one is scheduled
Calls(e) ==
  CASE e.op = "watchGroupListener" -> group[e.a].fn
    [] e.op = "zeroWatch" -> IF group[e.a].shouldCall THEN group[e.a].fn ELSE None
    [] e.op = "groupWatch" ->
         IF group[e.a].changeReactionScheduled THEN None
         ELSE E("evalAsync", group[e.a].s, GroupTask + e.a)
    [] e.op = "internalListenerFn" -> coll[e.a].fn
    [] e.op = "oneTimeListener" -> once.delegates[e.a].fn
    [] e.op = "oneTimeCheck" ->
         LET check == once.checks[e.a]
             d == once.delegates[check.o]
         IN IF (IF d.literal THEN isAllDefined(check.newValue)
                ELSE d.lastValue # UNDEFINED)
              THEN E("rm", d.w, 0) ELSE None
    [] OTHER -> e

\* the oldValue argument of the listener
OldValueToPass(newValue, oldValue) ==
  IF oldValue = INIT_WATCH_VALUE THEN newValue ELSE oldValue

\* the closures of $watchGroup after a callback: the destructor of an empty group
\* clears shouldCall; the listener of the watcher of expression e.b stores its
\* arguments and sets changeReactionScheduled; watchGroupListener clears firstRun
\* and, if listenerFn returns, changeReactionScheduled
GroupAfter(e) ==
  LET u == Calls(e)
      f == stack[Len(stack)]
      called == IF u.op = "ungroup" /\ group[u.a].watchers = <<>>
                  THEN [group EXCEPT ![u.a].shouldCall = FALSE]
                  ELSE group
  IN CASE e.op = "groupWatch" ->
            [called EXCEPT ![e.a].newValues[e.b] = f.nv,
                           ![e.a].oldValues[e.b] = OldValueToPass(f.nv, last[f.w]),
                           ![e.a].changeReactionScheduled = TRUE]
       [] e.op = "watchGroupListener" ->
            [called EXCEPT ![e.a].firstRun = FALSE,
                           ![e.a].changeReactionScheduled = u.op = "throw"]
       [] OTHER -> called

\* $evalAsync schedules a digest when this scope reads no phase and the queue is empty
EvalAsyncSchedules(s) == ReadPhase(s) = "null" /\ asyncQueue = <<>>

\* the slot holds the function that registration l passed to $on
HoldsListener(slot, l) == slot # 0 /\ slot # ABSENT /\ ldef[slot].of = ldef[l].of

\* this.$$listeners[eventName].indexOf(listener): the first slot that holds the
\* function, whichever call of $on put it there
IndexOfListener(arr, l) ==
  IF \E i \in 1..Len(arr) : HoldsListener(arr[i], l)
    THEN CHOOSE i \in 1..Len(arr) :
           HoldsListener(arr[i], l) /\ \A j \in 1..(i - 1) : ~HoldsListener(arr[j], l)
    ELSE 0

\* the destroyer returned by $on: the listener's slot is set to null
Off(sc, l) ==
  LET s == ldef[l].s
      eventName == ldef[l].name
      index == IndexOfListener(sc[s].listeners[eventName], l)
  IN IF index > 0 THEN [sc EXCEPT ![s].listeners[eventName][index] = 0] ELSE sc

\* this.$$listeners[eventName].push(listener), or a new array
Pushed(sc, s, eventName, l) ==
  [sc EXCEPT ![s].listeners[eventName] = IF @ = NoArray THEN <<l>> ELSE Append(@, l)]

\* a callback calls scope.$on(e.a, listener) on the scope it was given; the
\* listener is a new function that does nothing (e.b = 0) or the function of
\* registration e.b
LdefAfter(e, arg) ==
  IF e.op = "on"
    THEN Append(ldef, [s |-> arg, name |-> e.a,
                       fn |-> IF e.b = 0 THEN None
                              ELSE IF e.b > Len(ldef) THEN E("throw", 0, 0)
                              ELSE ldef[e.b].fn,
                       of |-> IF e.b = 0 \/ e.b > Len(ldef) THEN Len(ldef) + 1
                              ELSE ldef[e.b].of])
    ELSE ldef

\* a callback calls scope.$watch on the scope it was given; on a destroyed scope
\* the unshift throws before anything is changed
Watches(e, arg) == e.op = "watch" /\ ~scope[arg].destroyed

ScopeAfter(e, arg) ==
  CASE e.op = "rm" -> Unwatch(scope, e.a)
    [] e.op = "setAttr" -> [scope EXCEPT ![e.a].attr = e.b]
    [] e.op = "off" -> Off(scope, e.a)
    [] e.op = "ungroup" -> UnwatchAll(scope, group[e.a].watchers)
    [] Watches(e, arg) -> [scope EXCEPT ![arg].watchers = <<Len(wdef) + 1>> \o @]
    [] e.op = "on" -> Pushed(scope, arg, e.a, Len(ldef) + 1)
    [] OTHER -> scope

\* the watcher a callback registers: watchFn reads data[e.a], listenerFn is
\* function number e.b
WdefAfter(e, arg) ==
  IF Watches(e, arg)
    THEN Append(wdef, [s |-> arg, get |-> e.a, gfx |-> None, fn |-> Task(e.b),
                       valueEq |-> FALSE])
    ELSE wdef

LastAfter(e, arg) ==
  IF Watches(e, arg) THEN Append(last, INIT_WATCH_VALUE) ELSE last

DataAfter(e, arg) ==
  CASE e.op = "set" -> [data EXCEPT ![e.a] = e.b]
    [] e.op = "incTo" -> [data EXCEPT ![e.a] = IF @ >= 0 /\ @ < data[e.b] THEN @ + 1 ELSE @]
    [] e.op = "copy" -> [data EXCEPT ![e.a] = data[e.b]]
    [] e.op = "who" -> [data EXCEPT ![e.a] = arg]
    [] OTHER -> data

\* an entry of $$asyncQueue; by is the observer's: the depth of the call that
\* enqueued it (0: the top level) and, when a watchFn or listener did, the pass
AsyncTask(s, expr) ==
  [scope |-> s, expression |-> expr,
   by |-> IF stack = <<>> THEN <<0, 0>>
          ELSE IF stack[Len(stack)].pc \in {"get", "listener"}
            THEN <<Len(stack), TTL + 1 - stack[Len(stack)].ttl>>
            ELSE <<Len(stack), 0>>]

AsyncQueueAfter(e, arg) ==
  IF e.op = "evalAsync"
    THEN Append(asyncQueue, AsyncTask(On(e, arg), e.b))
    ELSE asyncQueue

ApplyAsyncQueueAfter(e, arg) ==
  IF e.op = "applyAsync"
    THEN Append(applyAsyncQueue, [NoTask EXCEPT !.scope = On(e, arg), !.expression = e.b])
    ELSE applyAsyncQueue

PostDigestQueueAfter(e, arg) ==
  IF e.op = "postDigest" THEN Append(postDigestQueue, e.b) ELSE postDigestQueue

LastDirtyWatchAfter(e, arg) ==
  IF \/ Watches(e, arg)
     \/ e.op = "rm" /\ UnwatchFinds(e.a)
     \/ e.op = "ungroup" /\ \E i \in 1..Len(group[e.a].watchers) :
                               UnwatchFinds(group[e.a].watchers[i])
    THEN 0 ELSE lastDirtyWatch

\* the id setTimeout returns: one no pending timer has
TimerId ==
  CHOOSE i \in 1..(Cardinality(timers.apply) + 1) :
    /\ \A t \in timers.apply : t.id # i
    /\ \A j \in 1..(i - 1) : \E t \in timers.apply : t.id = j

\* clearTimeout(id)
ClearTimeout(id) == {t \in timers.apply : t.id # id}

ApplyAsyncIdAfter(e, arg) ==
  IF e.op = "applyAsync" /\ applyAsyncId = 0 THEN TimerId ELSE applyAsyncId

TimersAfter(e, arg) ==
  CASE e.op = "evalAsync" /\ EvalAsyncSchedules(On(e, arg)) ->
         [timers EXCEPT !.eval = @ + 1]
    [] e.op = "applyAsync" /\ applyAsyncId = 0 ->
         [timers EXCEPT !.apply = @ \cup {[id |-> TimerId, s |-> On(e, arg)]}]
    [] OTHER -> timers

\* the model's caps on what the code leaves unbounded
Allowed(e, arg) ==
  /\ e.op = "evalAsync" =>
       /\ Len(asyncQueue) < MaxQueue
       /\ EvalAsyncSchedules(On(e, arg)) => timers.eval < MaxTimers
  /\ e.op = "applyAsync" =>
       /\ Len(applyAsyncQueue) < MaxQueue
       /\ applyAsyncId = 0 => Cardinality(timers.apply) < MaxApplyTimers
  /\ e.op = "postDigest" => Len(postDigestQueue) < MaxQueue
  /\ e.op = "watch" => Len(wdef) < MaxWatchers
  /\ e.op = "on" => Len(ldef) < MaxListeners

Simple(e, arg) ==
  LET u == Calls(e) IN
  /\ Allowed(u, arg)
  /\ scope' = ScopeAfter(u, arg)
  /\ data' = DataAfter(u, arg)
  /\ asyncQueue' = AsyncQueueAfter(u, arg)
  /\ applyAsyncQueue' = ApplyAsyncQueueAfter(u, arg)
  /\ Len(once.checks) + Len(ChecksAfter(e)) <= MaxChecks
  /\ postDigestQueue' = PostDigestQueueAfter(u, arg) \o ChecksAfter(e)
  /\ lastDirtyWatch' = LastDirtyWatchAfter(u, arg)
  /\ applyAsyncId' = ApplyAsyncIdAfter(u, arg)
  /\ timers' = TimersAfter(u, arg)
  /\ group' = GroupAfter(e)
  /\ coll' = CollAfter(e)
  /\ once' = OnceAfter(e)
  /\ tracked' = TrackedAfter(e)
  /\ wdef' = WdefAfter(u, arg)
  /\ last' = LastAfter(u, arg)
  /\ ldef' = LdefAfter(u, arg)
  /\ UNCHANGED compiled

-----------------------------------------------------------------------------
(* The call stack.                                                          *)

Frame(kind, this, e) ==
  [kind |-> kind, pc |-> "begin", this |-> this, e |-> e,
   ttl |-> TTL, dirty |-> FALSE, walk |-> <<>>, idx |-> 0, w |-> 0, nv |-> UNDEFINED,
   cur |-> NoTask, exc |-> "ok", sc |-> 0, stopped |-> FALSE, prevented |-> FALSE,
   name |-> 0, gen |-> 0]

Idle == stack = <<>>
top == stack[Len(stack)]
SetTop(f) == [stack EXCEPT ![Len(stack)] = f]
Pop == SubSeq(stack, 1, Len(stack) - 1)

Return(r) == stack' = Pop /\ ret' = r

\* $$fireEventOnScope starts on scope s: it takes the array $$listeners has for
\* the name now
StartFire(f, s) ==
  [f EXCEPT !.sc = s, !.idx = 1, !.gen = Len(scope[s].held), !.pc = "fire"]

\* FireArray with the array of 'someEvent' whatever the event's name
FireArrayOneName(f) ==
  LET arr == IF f.gen = Len(scope[f.sc].held)
               THEN scope[f.sc].listeners[SomeEvent]
               ELSE scope[f.sc].held[f.gen + 1][SomeEvent]
  IN IF arr = NoArray THEN <<>> ELSE arr

\* the array a running $$fireEventOnScope holds ([] when there was none)
FireArray(f) ==
  LET arr == IF f.gen = Len(scope[f.sc].held)
               THEN scope[f.sc].listeners[f.name]
               ELSE scope[f.sc].held[f.gen + 1][f.name]
  IN IF arr = NoArray THEN <<>> ELSE arr

\* the while loop of $$fireEventOnScope on scope f.sc is over
FireDone(f) == f.idx > Len(FireArray(f))

CallFrame(e, arg) ==
  CASE e.op = "digest" -> Frame("digest", On(e, arg), None)
    [] e.op = "apply" -> Frame("apply", On(e, arg), Task(e.b))
    [] e.op = "flush" -> Frame("flush", On(e, arg), None)
    [] e.op = "emit" ->
         StartFire([Frame("emit", On(e, arg), None) EXCEPT !.name = e.b], On(e, arg))
    [] e.op = "broadcast" ->
         StartFire([Frame("broadcast", On(e, arg), None)
                      EXCEPT !.name = e.b,
                             !.walk = <<[s |-> On(e, arg), k |-> 0, n |-> 0]>>],
                   On(e, arg))
    [] e.op = "destroy" -> Frame("destroy", On(e, arg), None)

\* the running call, left as frame f, invokes a callback whose effect is e
\* (the depth of the call stack is capped at MaxDepth)
\* the callback ends with an exception
Throws(u, arg) == u.op = "throw" \/ (u.op = "watch" /\ scope[arg].destroyed)

Invoke(e, arg, f) ==
  IF IsCall(e)
    THEN /\ Len(stack) < MaxDepth
         /\ UNCHANGED heap
         /\ stack' = Append(SetTop(f), CallFrame(e, arg))
         /\ ret' = "ok"
    ELSE /\ Simple(Resolve(e), arg)
         /\ stack' = SetTop(f)
         /\ ret' = IF Throws(Calls(Resolve(e)), arg) THEN "Error" ELSE "ok"

\* a step of the running call that calls no callback
Goto(f) == stack' = SetTop(f) /\ ret' = "ok"

SetPhase(s, phase) == [scope EXCEPT ![s].phase = phase]

-----------------------------------------------------------------------------
(* The observer.  hist is no state of the program: it notes, for the         *)
(* properties below, which destructors were called, what each listener was   *)
(* last given, which watchers the running pass has evaluated.                *)

\* the callback the running call is about to invoke, if that is its next step
CurEffect ==
  IF Idle THEN None
  ELSE LET f == top IN
       CASE f.kind = "digest" /\ f.pc \in {"task", "postCall"} -> Task(f.cur.expression)
         [] f.kind = "digest" /\ f.pc = "get" -> wdef[f.w].gfx
         [] f.kind = "digest" /\ f.pc = "listener" -> wdef[f.w].fn
         [] f.kind = "flush" /\ f.pc = "call" -> Task(f.cur.expression)
         [] f.kind = "apply" /\ f.pc = "eval" -> f.e
         [] f.kind \in {"emit", "broadcast"} /\ f.pc = "fire"
              /\ f.idx <= Len(FireArray(f))
              /\ FireArray(f)[f.idx] # 0 ->
                ldef[FireArray(f)[f.idx]].fn
         [] OTHER -> None

\* watcher w's watchFn is being evaluated
InTurn(w) ==
  \E i \in 1..Len(stack) :
    stack[i].kind = "digest" /\ stack[i].pc \in {"get", "getRet"} /\ stack[i].w = w

\* the running $$fireEventOnScope is about to call a listener
Fires ==
  /\ ~Idle
  /\ top.kind \in {"emit", "broadcast"}
  /\ top.pc = "fire"
  /\ ~FireDone(top)
  /\ FireArray(top)[top.idx] # 0

\* the listener it is about to call
Fired == FireArray(top)[top.idx]

\* a $digest that got past $beginPhase is running in st
ActiveDigest(st) == \E i \in 1..Len(st) : st[i].kind = "digest" /\ st[i].pc # "begin"

\* the bottom call is a $digest that starts a pass of $$digestOnce
PassStarts == Len(stack) = 1 /\ top.kind = "digest" /\ top.pc = "drain" /\ asyncQueue = <<>>

Monitor(e) ==
  LET grown == Len(wdef') > Len(wdef)
      more == Len(wdef') - Len(wdef)
      removes == e.op = "rm" /\ UnwatchFinds(e.a)
      \* listenerFn of a $watchGroup is about to be called
      reacts == \/ e.op = "watchGroupListener"
                \/ e.op = "zeroWatch" /\ group[e.a].shouldCall
  IN
  [ \* 0: registered; 1: destructor called from its own watchFn; 2: called otherwise
    destroyed |->
      IF grown THEN hist.destroyed \o [i \in 1..more |-> 0]
      ELSE IF e.op = "rm" /\ hist.destroyed[e.a] = 0
        THEN [hist.destroyed EXCEPT ![e.a] = IF InTurn(e.a) THEN 1 ELSE 2]
        ELSE hist.destroyed,
    \* the newValue of the listener's previous invocation
    prev |->
      (IF ~Idle /\ top.kind = "digest" /\ top.pc = "listener"
         THEN [hist.prev EXCEPT ![top.w] = top.nv]
         ELSE hist.prev) \o [i \in 1..more |-> INIT_WATCH_VALUE],
    \* how often the listener was invoked
    fired |->
      (IF ~Idle /\ top.kind = "digest" /\ top.pc = "listener"
         THEN [hist.fired EXCEPT ![top.w] = IF @ < 2 THEN @ + 1 ELSE @]
         ELSE hist.fired) \o [i \in 1..more |-> 0],
    \* the scope whose $digest returned normally, with nothing queued, and nothing
    \* was done since but to call $digest on it again
    quiet |->
      IF Idle
        THEN IF e.op = "digest" /\ e.a = hist.quiet THEN hist.quiet ELSE 0
        ELSE IF Len(stack) = 1 /\ stack' = <<>>
          THEN IF top.kind = "digest" /\ ret' = "ok" /\ asyncQueue' = <<>>
                  /\ applyAsyncQueue' = <<>>
                 THEN top.this ELSE 0
          ELSE hist.quiet,
    \* a listener returned normally in the running pass of the bottom $digest
    lit |->
      IF Idle \/ PassStarts THEN FALSE
      ELSE IF Len(stack) = 1 /\ top.kind = "digest" /\ top.pc = "fnRet" /\ ret = "ok"
        THEN TRUE
        ELSE hist.lit,
    \* the passes of the bottom $digest in which a listener returned normally
    rounds |->
      IF Idle THEN 0
      ELSE IF Len(stack) = 1 /\ top.kind = "digest" /\ top.pc = "fnRet" /\ ret = "ok"
              /\ ~hist.lit
        THEN hist.rounds + 1
        ELSE hist.rounds,
    \* the watchers the running pass of the bottom $digest has evaluated
    seen |->
      IF Idle \/ PassStarts THEN {}
      ELSE IF Len(stack) = 1 /\ top.kind = "digest" /\ top.pc = "get"
        THEN hist.seen \cup {top.w}
        ELSE hist.seen,
    \* the scopes a watcher was removed from during that pass
    removed |->
      IF Idle \/ PassStarts THEN {}
      ELSE IF removes THEN hist.removed \cup {wdef[e.a].s}
      ELSE hist.removed,
    \* how many tasks at the end of $$applyAsyncQueue were passed to $applyAsync
    \* while the $digest that is still running was
    fresh |->
      IF ~ActiveDigest(stack') THEN 0
      ELSE IF Len(applyAsyncQueue') > Len(applyAsyncQueue) /\ ActiveDigest(stack)
        THEN hist.fresh + 1
      ELSE IF Len(applyAsyncQueue') < Len(applyAsyncQueue)
              /\ hist.fresh = Len(applyAsyncQueue)
        THEN hist.fresh - 1
        ELSE hist.fresh,
    \* the task $$flushApplyAsync took last is one of those
    same |->
      IF stack' = <<>> THEN FALSE
      ELSE IF Len(applyAsyncQueue') < Len(applyAsyncQueue)
        THEN hist.fresh = Len(applyAsyncQueue)
        ELSE hist.same,
    \* how each scope was made: the scope $new was called on (0: new Scope()) and
    \* the isolate argument
    made |->
      IF Len(scope') > Len(scope)
        THEN Append(hist.made, [this |-> e.a, isolate |-> e.b = 1])
        ELSE hist.made,
    \* the scopes whose attribute the application has assigned
    wrote |->
      IF e.op = "setAttr" THEN hist.wrote \cup {e.a} ELSE hist.wrote,
    \* how often (up to 2) each event listener was called since the application
    \* made the call that is running
    fires |->
      IF Idle THEN [l \in 1..Len(ldef') |-> 0]
      ELSE (IF Fires THEN [hist.fires EXCEPT ![Fired] = IF @ < 2 THEN @ + 1 ELSE @]
            ELSE hist.fires) \o [l \in 1..(Len(ldef') - Len(ldef)) |-> 0],
    \* the listeners each running $emit or $broadcast has called, by depth of the
    \* call stack
    heard |->
      LET base == IF Fires THEN [hist.heard EXCEPT ![Len(stack)] = @ \cup {Fired}]
                  ELSE hist.heard
      IN [i \in 1..Len(stack') |-> IF i <= Len(base) THEN base[i] ELSE {}],
    \* the listeners whose destroyer (the function $on returned) has been called
    offed |->
      IF e.op = "off" THEN hist.offed \cup {e.a} ELSE hist.offed,
    \* how often (up to 2) the listenerFn of each $watchGroup was called in all
    calls |->
      IF Len(group') > Len(group) THEN Append(hist.calls, 0)
      ELSE IF reacts THEN [hist.calls EXCEPT ![e.a] = IF @ < 2 THEN @ + 1 ELSE @]
      ELSE hist.calls,
    \* and how often since the application made the call that is running
    round |->
      IF Idle THEN [g \in 1..Len(group') |-> 0]
      ELSE IF reacts THEN [hist.round EXCEPT ![e.a] = IF @ < 2 THEN @ + 1 ELSE @]
      ELSE hist.round,
    \* the values newValues held when it was called last (<<>>: never yet)
    given |->
      IF Len(group') > Len(group) THEN Append(hist.given, <<>>)
      ELSE IF reacts THEN [hist.given EXCEPT ![e.a] = group[e.a].newValues]
      ELSE hist.given,
    \* the groups a watcher of which has called its listener since then
    stirred |->
      IF Idle THEN {}
      ELSE IF e.op = "groupWatch" THEN hist.stirred \cup {e.a}
      ELSE hist.stirred,
    \* how often (up to 2) the listenerFn of each $watchCollection was called since
    \* the application made the call that is running
    heeded |->
      IF Idle THEN [c \in 1..Len(coll') |-> 0]
      ELSE IF e.op = "internalListenerFn"
        THEN [hist.heeded EXCEPT ![e.a] = IF @ < 2 THEN @ + 1 ELSE @]
      ELSE hist.heeded,
    \* and the calls in all (up to MaxFirings + 1)
    firings |->
      IF Len(coll') > Len(coll) THEN Append(hist.firings, 0)
      ELSE IF e.op = "internalListenerFn"
        THEN [hist.firings EXCEPT ![e.a] = IF @ <= MaxFirings THEN @ + 1 ELSE @]
      ELSE hist.firings,
    \* the value it was given last
    shown |->
      IF Len(coll') > Len(coll) THEN Append(hist.shown, Prim(UNDEFINED))
      ELSE IF e.op = "internalListenerFn"
        THEN [hist.shown EXCEPT ![e.a] = coll[e.a].newValue]
      ELSE hist.shown,
    \* the groups whose destructor (the function $watchGroup returned) was called
    ungrouped |->
      IF Calls(e).op = "ungroup" THEN hist.ungrouped \cup {Calls(e).a}
      ELSE hist.ungrouped,
    \* the watchers registered during the running pass of the bottom $digest
    born |->
      IF Idle \/ PassStarts THEN {}
      ELSE hist.born \cup ((Len(wdef) + 1)..Len(wdef')) ]

Observe(e) == hist' = Monitor(e)

-----------------------------------------------------------------------------
(* $digest, with $$digestOnce and $$everyScope inlined.                      *)

\* fn(scope) of $$digestOnce starts on scope s: forEachRight reads the length once,
\* and has nothing to walk when $$watchers is null
EnterScope(f, s) ==
  [f EXCEPT !.walk = Append(@, [s |-> s, k |-> 0, n |-> 0]),
            !.idx = IF scope[s].destroyed THEN 0 ELSE Len(scope[s].watchers),
            !.pc = "watcher"]

CurScope(f) == f.walk[Len(f.walk)].s

\* $digest up to the do-loop
DigestBegin ==
  LET f == top IN
  /\ lastDirtyWatch' = 0
  /\ IF ReadPhase(f.this) # "null"
       THEN /\ Return(ReadPhase(f.this) \o " already in progress.")
            /\ UNCHANGED <<scope, timers>>
       ELSE /\ scope' = SetPhase(f.this, "$digest")
            /\ IF applyAsyncId # 0
                 THEN /\ timers' = [timers EXCEPT !.apply = ClearTimeout(applyAsyncId)]
                      /\ stack' = Append(SetTop([f EXCEPT !.pc = "drain"]),
                                         Frame("flush", f.this, None))
                      /\ ret' = "ok"
                 ELSE /\ Goto([f EXCEPT !.pc = "drain"])
                      /\ UNCHANGED timers
  /\ UNCHANGED <<wdef, ldef, group, coll, once, tracked, compiled, last, data, asyncQueue, applyAsyncQueue, postDigestQueue,
                 applyAsyncId>>

\* the while loop over $$asyncQueue, then the start of $$digestOnce
DigestDrain ==
  LET f == top IN
  IF asyncQueue # <<>>
    THEN /\ asyncQueue' = Tail(asyncQueue)
         /\ Goto([f EXCEPT !.cur = Head(asyncQueue), !.pc = "task"])
         /\ UNCHANGED <<scope, wdef, ldef, group, coll, once, tracked, compiled, last, data, applyAsyncQueue, postDigestQueue,
                        lastDirtyWatch, applyAsyncId, timers>>
    ELSE /\ Goto(EnterScope([f EXCEPT !.dirty = FALSE, !.walk = <<>>], f.this))
         /\ UNCHANGED heap

\* asyncTask.scope.$eval(asyncTask.expression), inside try/catch
DigestTask ==
  LET f == top IN
  Invoke(Task(f.cur.expression), f.cur.scope, [f EXCEPT !.pc = "drain"])

\* one turn of forEachRight: the watcher at the index
DigestWatcher ==
  LET f == top
      s == CurScope(f)
      arr == scope[s].watchers
  IN IF f.idx = 0
       THEN \* fn returned continueLoop = true: on to $$children.every
            /\ Goto([f EXCEPT !.walk[Len(f.walk)].n = Len(scope[s].children),
                             !.walk[Len(f.walk)].k = 0,
                             !.pc = "children"])
            /\ UNCHANGED heap
       ELSE IF f.idx > Len(arr)
         THEN \* if (watcher): the array shrank, nothing at this index
              /\ Goto([f EXCEPT !.idx = @ - 1])
              /\ UNCHANGED heap
         ELSE /\ Goto([f EXCEPT !.idx = @ - 1, !.w = arr[f.idx], !.pc = "get"])
              /\ UNCHANGED heap

\* watcher.watchFn(scope)
DigestWatchFn ==
  LET f == top IN
  Invoke(wdef[f.w].gfx, CurScope(f), [f EXCEPT !.pc = "getRet"])

\* the value the watchFn returns: data[get], or changeCount of the closure -get
\* when the watchFn is the internalWatchFn of a $watchCollection
WatchValue(w) ==
  IF wdef[w].gfx.op = "inputsWatchFn" THEN tracked[wdef[w].gfx.a].lastResult
  ELSE IF \E o \in 1..Len(once.delegates) : once.delegates[o].w = w /\ once.delegates[o].literal
    THEN LET d == once.delegates[CHOOSE o \in 1..Len(once.delegates) :
                                    once.delegates[o].w = w]
         IN Literal(data[d.gets[1]], data[d.gets[2]])
  ELSE IF wdef[w].get = 0 THEN UNDEFINED
  ELSE IF wdef[w].get < 0 THEN coll[-wdef[w].get].changeCount
  ELSE data[wdef[w].get]

\* DigestCompare with no try/catch around the watchFn
DigestCompareNoCatch ==
  LET f == top
      w == f.w
      newValue == WatchValue(w)
      oldValue == last[w]
  IN IF ret # "ok"
       THEN Return(ret) /\ UNCHANGED heap
       ELSE IF ~areEqual(newValue, oldValue, wdef[w].valueEq)
         THEN /\ lastDirtyWatch' = w
              /\ Goto([f EXCEPT !.nv = newValue, !.pc = "listener"])
              /\ UNCHANGED <<scope, wdef, ldef, group, coll, once, tracked, compiled, last, data, asyncQueue, applyAsyncQueue,
                             postDigestQueue, applyAsyncId, timers>>
         ELSE IF w = lastDirtyWatch
           THEN Goto([f EXCEPT !.pc = "passEnd"]) /\ UNCHANGED heap
           ELSE Goto([f EXCEPT !.pc = "watcher"]) /\ UNCHANGED heap

\* after watchFn returned: the comparison with watcher.last
DigestCompare ==
  LET f == top
      w == f.w
      newValue == WatchValue(w)
      oldValue == last[w]
  IN IF ret # "ok"
       THEN Goto([f EXCEPT !.pc = "watcher"]) /\ UNCHANGED heap
       ELSE IF ~areEqual(newValue, oldValue, wdef[w].valueEq)
         THEN /\ lastDirtyWatch' = w
              /\ Goto([f EXCEPT !.nv = newValue, !.pc = "listener"])
              /\ UNCHANGED <<scope, wdef, ldef, group, coll, once, tracked, compiled, last, data, asyncQueue, applyAsyncQueue,
                             postDigestQueue, applyAsyncId, timers>>
         ELSE IF w = lastDirtyWatch
           THEN \* continueLoop = false stops forEachRight and the whole walk
                Goto([f EXCEPT !.pc = "passEnd"]) /\ UNCHANGED heap
           ELSE Goto([f EXCEPT !.pc = "watcher"]) /\ UNCHANGED heap

\* watcher.listenerFn(newValue, oldValueToPass, scope)
DigestListener ==
  LET f == top IN
  Invoke(wdef[f.w].fn, CurScope(f), [f EXCEPT !.pc = "fnRet"])

\* DigestListenerRet without dirtyFlag = true
DigestListenerRetNoFlag ==
  LET f == top IN
  IF ret # "ok"
    THEN Goto([f EXCEPT !.pc = "watcher"]) /\ UNCHANGED heap
    ELSE /\ last' = [last EXCEPT ![f.w] = IF wdef[f.w].valueEq THEN cloneDeep(f.nv)
                                          ELSE f.nv]
         /\ Goto([f EXCEPT !.pc = "watcher"])
         /\ UNCHANGED <<scope, wdef, ldef, group, coll, once, tracked, compiled, data, asyncQueue, applyAsyncQueue, postDigestQueue,
                        lastDirtyWatch, applyAsyncId, timers>>

\* after the listener returned: watcher.last and dirtyFlag, unless it threw
DigestListenerRet ==
  LET f == top IN
  IF ret # "ok"
    THEN Goto([f EXCEPT !.pc = "watcher"]) /\ UNCHANGED heap
    ELSE /\ last' = [last EXCEPT ![f.w] = IF wdef[f.w].valueEq THEN cloneDeep(f.nv)
                                          ELSE f.nv]
         /\ Goto([f EXCEPT !.dirty = TRUE, !.pc = "watcher"])
         /\ UNCHANGED <<scope, wdef, ldef, group, coll, once, tracked, compiled, data, asyncQueue, applyAsyncQueue, postDigestQueue,
                        lastDirtyWatch, applyAsyncId, timers>>

\* $$children.every of $$everyScope: the length is read once, the elements live
DigestChildren ==
  LET f == top
      d == Len(f.walk)
      en == f.walk[d]
      ch == scope[en.s].children
  IN /\ UNCHANGED heap
     /\ IF en.k >= en.n
          THEN IF d = 1
                 THEN Goto([f EXCEPT !.pc = "passEnd"])
                 ELSE Goto([f EXCEPT !.walk = [SubSeq(f.walk, 1, d - 1)
                                                EXCEPT ![d - 1].k = @ + 1]])
          ELSE IF en.k < Len(ch)
                 THEN Goto(EnterScope(f, ch[en.k + 1]))
                 ELSE Goto([f EXCEPT !.walk[d].k = @ + 1])

\* DigestPassEnd giving up one pass early
DigestPassEndEarly ==
  LET f == top
      again == f.dirty \/ asyncQueue # <<>>
  IN /\ UNCHANGED <<wdef, ldef, group, coll, once, tracked, compiled, last, data, asyncQueue, applyAsyncQueue, postDigestQueue,
                    lastDirtyWatch, applyAsyncId, timers>>
     /\ IF again /\ f.ttl - 2 = 0
          THEN /\ scope' = SetPhase(f.this, "null")
               /\ Return("Maximum $watch TTL exceeded")
          ELSE IF again
            THEN /\ Goto([f EXCEPT !.ttl = @ - 1, !.pc = "drain"])
                 /\ UNCHANGED scope
            ELSE /\ scope' = SetPhase(f.this, "null")
                 /\ Goto([f EXCEPT !.ttl = @ - 1, !.pc = "post"])

\* after $$digestOnce: TTL, the loop condition, $clearPhase
DigestPassEnd ==
  LET f == top
      again == f.dirty \/ asyncQueue # <<>>
  IN /\ UNCHANGED <<wdef, ldef, group, coll, once, tracked, compiled, last, data, asyncQueue, applyAsyncQueue, postDigestQueue,
                    lastDirtyWatch, applyAsyncId, timers>>
     /\ IF again /\ f.ttl - 1 = 0
          THEN /\ scope' = SetPhase(f.this, "null")
               /\ Return("Maximum $watch TTL exceeded")
          ELSE IF again
            THEN /\ Goto([f EXCEPT !.ttl = @ - 1, !.pc = "drain"])
                 /\ UNCHANGED scope
            ELSE /\ scope' = SetPhase(f.this, "null")
                 /\ Goto([f EXCEPT !.ttl = @ - 1, !.pc = "post"])

\* the while loop over $$postDigestQueue
DigestPost ==
  LET f == top IN
  IF postDigestQueue # <<>>
    THEN /\ postDigestQueue' = Tail(postDigestQueue)
         /\ Goto([f EXCEPT !.cur = [NoTask EXCEPT !.expression = Head(postDigestQueue)],
                          !.pc = "postCall"])
         /\ UNCHANGED <<scope, wdef, ldef, group, coll, once, tracked, compiled, last, data, asyncQueue, applyAsyncQueue,
                        lastDirtyWatch, applyAsyncId, timers>>
    ELSE Return("ok") /\ UNCHANGED heap

DigestPostCall ==
  LET f == top IN
  Invoke(Task(f.cur.expression), 0, [f EXCEPT !.pc = "post"])

Digest ==
  /\ ~Idle
  /\ top.kind = "digest"
  /\ CASE top.pc = "begin" -> DigestBegin
       [] top.pc = "drain" -> DigestDrain
       [] top.pc = "task" -> DigestTask
       [] top.pc = "watcher" -> DigestWatcher
       [] top.pc = "get" -> DigestWatchFn
       [] top.pc = "getRet" -> DigestCompare
       [] top.pc = "listener" -> DigestListener
       [] top.pc = "fnRet" -> DigestListenerRet
       [] top.pc = "children" -> DigestChildren
       [] top.pc = "passEnd" -> DigestPassEnd
       [] top.pc = "post" -> DigestPost
       [] top.pc = "postCall" -> DigestPostCall

-----------------------------------------------------------------------------
(* $$flushApplyAsync                                                        *)

Flush ==
  /\ ~Idle
  /\ top.kind = "flush"
  /\ LET f == top IN
     CASE f.pc = "begin" ->
            IF applyAsyncQueue # <<>>
              THEN /\ applyAsyncQueue' = Tail(applyAsyncQueue)
                   /\ Goto([f EXCEPT !.cur = Head(applyAsyncQueue), !.pc = "call"])
                   /\ UNCHANGED <<scope, wdef, ldef, group, coll, once, tracked, compiled, last, data, asyncQueue, postDigestQueue,
                                  lastDirtyWatch, applyAsyncId, timers>>
              ELSE /\ applyAsyncId' = 0
                   /\ Return("ok")
                   /\ UNCHANGED <<scope, wdef, ldef, group, coll, once, tracked, compiled, last, data, asyncQueue, applyAsyncQueue,
                                  postDigestQueue, lastDirtyWatch, timers>>
       [] f.pc = "call" ->
            \* the queued closure: this.$eval(expr), inside try/catch
            Invoke(Task(f.cur.expression), f.cur.scope, [f EXCEPT !.pc = "begin"])

-----------------------------------------------------------------------------
(* $apply: try { $beginPhase; $eval } finally { $clearPhase; $root.$digest } *)

\* $apply digests a scope other than $root: the one it was called on
ApplyDigestsThis(f) == f.this

\* the scope whose $digest ends $apply: this.$root
ApplyDigests(f) == scope[f.this].root

Apply ==
  /\ ~Idle
  /\ top.kind = "apply"
  /\ LET f == top IN
     CASE f.pc = "begin" ->
            /\ UNCHANGED <<wdef, ldef, group, coll, once, tracked, compiled, last, data, asyncQueue, applyAsyncQueue, postDigestQueue,
                           lastDirtyWatch, applyAsyncId, timers>>
            /\ IF ReadPhase(f.this) # "null"
                 THEN /\ Goto([f EXCEPT !.exc = ReadPhase(f.this) \o " already in progress.",
                                        !.pc = "finally"])
                      /\ UNCHANGED scope
                 ELSE /\ scope' = SetPhase(f.this, "$apply")
                      /\ Goto([f EXCEPT !.pc = "eval"])
       [] f.pc = "eval" ->
            Invoke(f.e, f.this, [f EXCEPT !.pc = "evalRet"])
       [] f.pc = "evalRet" ->
            Goto([f EXCEPT !.exc = ret, !.pc = "finally"]) /\ UNCHANGED heap
       [] f.pc = "finally" ->
            /\ Len(stack) < MaxDepth
            /\ scope' = SetPhase(f.this, "null")
            /\ stack' = Append(SetTop([f EXCEPT !.pc = "finRet"]),
                               Frame("digest", ApplyDigests(f), None))
            /\ ret' = "ok"
            /\ UNCHANGED <<wdef, ldef, group, coll, once, tracked, compiled, last, data, asyncQueue, applyAsyncQueue, postDigestQueue,
                           lastDirtyWatch, applyAsyncId, timers>>
       [] f.pc = "finRet" ->
            \* an error of the digest in the finally block replaces the pending one
            Return(IF ret # "ok" THEN ret ELSE f.exc) /\ UNCHANGED heap

-----------------------------------------------------------------------------
(* $emit and $broadcast, with $$fireEventOnScope inlined.                     *)

\* one turn of the while loop of $$fireEventOnScope on scope f.sc
FireEventOnScope(f) ==
  LET listeners == FireArray(f) IN
  IF listeners[f.idx] = 0
    THEN /\ scope' = IF f.gen = Len(scope[f.sc].held)
                       THEN [scope EXCEPT ![f.sc].listeners[f.name] = Splice(@, f.idx)]
                       ELSE [scope EXCEPT ![f.sc].held[f.gen + 1][f.name] =
                                            Splice(@, f.idx)]
         /\ Goto(f)
         /\ UNCHANGED <<wdef, ldef, group, coll, once, tracked, compiled, last, data, asyncQueue, applyAsyncQueue,
                        postDigestQueue, lastDirtyWatch, applyAsyncId, timers>>
    ELSE LET e == ldef[listeners[f.idx]].fn IN
         CASE e.op = "stop" /\ f.kind = "emit" ->
                Goto([f EXCEPT !.idx = @ + 1, !.stopped = TRUE]) /\ UNCHANGED heap
           [] e.op = "stop" /\ f.kind # "emit" ->
                \* the event of $broadcast has no stopPropagation
                Invoke(E("throw", 0, 0), f.sc, [f EXCEPT !.idx = @ + 1])
           [] e.op = "prevent" ->
                Goto([f EXCEPT !.idx = @ + 1, !.prevented = TRUE]) /\ UNCHANGED heap
           [] OTHER ->
                Invoke(e, f.sc, [f EXCEPT !.idx = @ + 1])

\* EmitUp with a loop that does not look at propagationStopped
EmitUpNoStop(f) ==
  LET parent == scope[f.sc].parent IN
  /\ UNCHANGED heap
  /\ IF parent # 0
       THEN Goto(StartFire(f, parent))
       ELSE Return("ok")

\* scope = scope.$parent; while (scope && !propagationStopped)
EmitUp(f) ==
  LET parent == scope[f.sc].parent IN
  /\ UNCHANGED heap
  /\ IF parent # 0 /\ ~f.stopped
       THEN Goto(StartFire(f, parent))
       ELSE Return("ok")

Emit ==
  /\ ~Idle
  /\ top.kind = "emit"
  /\ IF FireDone(top) THEN EmitUp(top) ELSE FireEventOnScope(top)

\* fn returned true: on to $$children.every
BroadcastDown(f) ==
  /\ UNCHANGED heap
  /\ Goto([f EXCEPT !.walk[Len(f.walk)].n = Len(scope[f.sc].children),
                   !.walk[Len(f.walk)].k = 0,
                   !.pc = "children"])

\* $$children.every of $$everyScope under $broadcast
BroadcastChildren ==
  LET f == top
      d == Len(f.walk)
      en == f.walk[d]
      ch == scope[en.s].children
  IN /\ UNCHANGED heap
     /\ IF en.k >= en.n
          THEN IF d = 1
                 THEN Return("ok")
                 ELSE Goto([f EXCEPT !.walk = [SubSeq(f.walk, 1, d - 1)
                                                EXCEPT ![d - 1].k = @ + 1]])
          ELSE IF en.k < Len(ch)
                 THEN Goto(StartFire([f EXCEPT !.walk = Append(@, [s |-> ch[en.k + 1],
                                                                   k |-> 0, n |-> 0])],
                                     ch[en.k + 1]))
                 ELSE Goto([f EXCEPT !.walk[d].k = @ + 1])

Broadcast ==
  /\ ~Idle
  /\ top.kind = "broadcast"
  /\ IF top.pc = "fire"
       THEN IF FireDone(top) THEN BroadcastDown(top) ELSE FireEventOnScope(top)
       ELSE BroadcastChildren

-----------------------------------------------------------------------------
(* $destroy                                                                 *)

\* siblings.splice(indexOfThis, 1) with the index found before the $broadcast
DetachAt(sc, s, indexOfThis) ==
  LET siblings == sc[sc[s].parent].children
  IN IF indexOfThis > 0 /\ indexOfThis <= Len(siblings)
       THEN [sc EXCEPT ![sc[s].parent].children = Splice(@, indexOfThis)]
       ELSE sc

\* this.$$watchers = null; this.$$listeners = {}. The array that was $$watchers
\* stays as it is for the loops that hold it (destroyed says that $$watchers is
\* null), and so does the object that was $$listeners when it had an array.
ClearScope(sc, s) ==
  [sc EXCEPT ![s].destroyed = TRUE,
             ![s].held = IF sc[s].listeners = NoListeners THEN @
                         ELSE Append(@, sc[s].listeners),
             ![s].listeners = NoListeners]

ScopeDestroy ==
  /\ ~Idle
  /\ top.kind = "destroy"
  /\ UNCHANGED <<wdef, ldef, group, coll, once, tracked, compiled, last, data, asyncQueue, applyAsyncQueue, postDigestQueue,
                 lastDirtyWatch, applyAsyncId, timers>>
  /\ LET f == top
         indexOfThis == IndexOf(scope[scope[f.this].parent].children, f.this)
     IN CASE f.pc = "begin" /\ f.this = scope[f.this].root ->
               \* Don't destroy root scope
               Return("ok") /\ UNCHANGED scope
          [] f.pc = "begin" /\ f.this # scope[f.this].root /\ indexOfThis > 0 ->
               /\ stack' = Append(SetTop([f EXCEPT !.idx = indexOfThis, !.pc = "splice"]),
                                  CallFrame(E("broadcast", f.this, DestroyEvent), 0))
               /\ ret' = "ok"
               /\ UNCHANGED scope
          [] f.pc = "begin" /\ f.this # scope[f.this].root /\ indexOfThis = 0 ->
               /\ scope' = ClearScope(scope, f.this)
               /\ Return("ok")
          [] f.pc = "splice" ->
               /\ scope' = ClearScope(DetachAt(scope, f.this, f.idx), f.this)
               /\ Return("ok")

-----------------------------------------------------------------------------
(* The timers: the callbacks given to setTimeout run when nothing else does. *)

\* setTimeout(() => { if (this.$$asyncQueue.length) this.$root.$digest() }, 0)
TimerEvalAsync ==
  /\ Idle
  /\ timers.eval > 0
  /\ timers' = [timers EXCEPT !.eval = @ - 1]
  /\ stack' = IF asyncQueue # <<>> THEN <<Frame("digest", ROOT, None)>> ELSE <<>>
  /\ ret' = "ok"
  /\ UNCHANGED <<scope, wdef, ldef, group, coll, once, tracked, compiled, last, data, asyncQueue, applyAsyncQueue, postDigestQueue,
                 lastDirtyWatch, applyAsyncId>>
  /\ Observe(None)

\* setTimeout(() => { this.$apply(this.$$flushApplyAsync.bind(this)) }, 0)
TimerApplyAsync ==
  /\ Idle
  /\ \E t \in timers.apply :
       /\ timers' = [timers EXCEPT !.apply = @ \ {t}]
       /\ stack' = <<Frame("apply", t.s, E("flush", t.s, 0))>>
  /\ ret' = "ok"
  /\ UNCHANGED <<scope, wdef, ldef, group, coll, once, tracked, compiled, last, data, asyncQueue, applyAsyncQueue, postDigestQueue,
                 lastDirtyWatch, applyAsyncId>>
  /\ Observe(None)

-----------------------------------------------------------------------------
(* What the application calls when nothing is running.                      *)

\* a call of one of the methods from the top level
Call(e) ==
  /\ Idle
  /\ IF IsCall(e)
       THEN stack' = <<CallFrame(e, 0)>> /\ ret' = "ok" /\ UNCHANGED heap
       ELSE /\ Simple(Resolve(e), 0)
            /\ stack' = <<>>
            /\ ret' = IF Calls(Resolve(e)).op = "throw" THEN "Error" ELSE "ok"
  /\ Observe(Resolve(e))

Scopes == 1..Len(scope)
Watchers == 1..Len(wdef)

\* scope.$watch(watchFn, listenerFn, valueEq) with a function for watchFn (on a
\* destroyed scope the unshift throws before anything is changed)
Watch(s, d) ==
  /\ Idle
  /\ ~scope[s].destroyed
  /\ Len(wdef) < MaxWatchers
  /\ wdef' = Append(wdef, [s |-> s, get |-> d.get, gfx |-> d.gfx, fn |-> d.fn,
                           valueEq |-> d.valueEq])
  /\ last' = Append(last, INIT_WATCH_VALUE)
  /\ scope' = [scope EXCEPT ![s].watchers = <<Len(wdef) + 1>> \o @]
  /\ lastDirtyWatch' = 0
  /\ UNCHANGED <<ldef, group, coll, once, tracked, compiled, data, asyncQueue, applyAsyncQueue, postDigestQueue,
                 applyAsyncId, timers, stack, ret>>
  /\ Observe(None)

\* the destructor $watch returned for watcher w
Destroy(w) == Call(E("rm", w, 0))

\* the closure of a call of $watchGroup on s with n watchFns
Closure(s, n, listenerFn) ==
  [s |-> s, fn |-> listenerFn,
   watchers |-> [i \in 1..n |-> Len(wdef) + i],
   newValues |-> [i \in 1..n |-> UNDEFINED],
   oldValues |-> [i \in 1..n |-> UNDEFINED],
   changeReactionScheduled |-> FALSE, firstRun |-> TRUE, shouldCall |-> TRUE]

\* the array in reverse: each $watch unshifts its watcher
RECURSIVE Reverse(_)
Reverse(seq) == IF seq = <<>> THEN <<>> ELSE Reverse(Tail(seq)) \o <<Head(seq)>>

\* scope.$watchGroup(watchFns, listenerFn): watchFns[i] returns data[gets[i]]; with
\* no watchFn the call of listenerFn is passed to $evalAsync, else every watchFn
\* is registered with $watch
WatchGroup(s, gets, listenerFn) ==
  LET g == Len(group) + 1
      n == Len(gets)
      c == Closure(s, n, listenerFn)
  IN
  /\ Idle
  /\ ~scope[s].destroyed
  /\ Len(group) < MaxGroups
  /\ Len(wdef) + n <= MaxWatchers
  /\ group' = Append(group, c)
  /\ IF n = 0
       THEN /\ Allowed(E("evalAsync", s, GroupTask + g), s)
            /\ asyncQueue' = AsyncQueueAfter(E("evalAsync", s, GroupTask + g), s)
            /\ timers' = TimersAfter(E("evalAsync", s, GroupTask + g), s)
            /\ UNCHANGED <<scope, wdef, last, lastDirtyWatch>>
       ELSE /\ wdef' = wdef \o [i \in 1..n |->
                                 [s |-> s, get |-> gets[i], gfx |-> None,
                                  fn |-> E("groupWatch", g, i), valueEq |-> FALSE]]
            /\ last' = last \o [i \in 1..n |-> INIT_WATCH_VALUE]
            /\ scope' = [scope EXCEPT ![s].watchers = Reverse(c.watchers) \o @]
            /\ lastDirtyWatch' = 0
            /\ UNCHANGED <<asyncQueue, timers>>
  /\ UNCHANGED <<ldef, coll, once, tracked, compiled, data, applyAsyncQueue, postDigestQueue, applyAsyncId, stack,
                 ret>>
  /\ Observe(None)

\* the destructor $watchGroup returned for group g
Ungroup(g) == Call(E("ungroup", g, 0))

\* scope.$watchCollection(watchFn, listenerFn): watchFn returns data[x];
\* trackVeryOldValue is listenerFn.length > 1
WatchCollection(s, x, listenerFn, trackVeryOldValue) ==
  LET c == Len(coll) + 1 IN
  /\ Idle
  /\ ~scope[s].destroyed
  /\ Len(wdef) < MaxWatchers
  /\ coll' = Append(coll, [x |-> x, fn |-> listenerFn,
                           newValue |-> Prim(UNDEFINED), oldValue |-> Prim(UNDEFINED),
                           oldLength |-> 0, veryOldValue |-> Prim(UNDEFINED),
                           trackVeryOldValue |-> trackVeryOldValue,
                           changeCount |-> 0, firstRun |-> TRUE])
  /\ wdef' = Append(wdef, [s |-> s, get |-> -c, gfx |-> E("internalWatchFn", c, 0),
                           fn |-> E("internalListenerFn", c, 0), valueEq |-> FALSE])
  /\ last' = Append(last, INIT_WATCH_VALUE)
  /\ scope' = [scope EXCEPT ![s].watchers = <<Len(wdef) + 1>> \o @]
  /\ lastDirtyWatch' = 0
  /\ UNCHANGED <<ldef, group, once, tracked, compiled, data, asyncQueue, applyAsyncQueue, postDigestQueue,
                 applyAsyncId, timers, stack, ret>>
  /\ Observe(None)

\* scope.$watch(expr, listenerFn, valueEq) with an expression that has inputs,
\* 'a + b' or '[a, b]': the inputs are a and b
WatchInputs(s, expr, listenerFn, valueEq) ==
  /\ Idle
  /\ ~scope[s].destroyed
  /\ Len(wdef) < MaxWatchers
  /\ tracked' = Append(tracked, [w |-> Len(wdef) + 1, expr |-> expr,
                                 oldValues |-> <<NoValue, NoValue>>,
                                 lastResult |-> UNDEFINED, made |-> 0])
  /\ wdef' = Append(wdef, [s |-> s, get |-> 0, gfx |-> E("inputsWatchFn", Len(tracked) + 1, 0),
                           fn |-> listenerFn, valueEq |-> valueEq])
  /\ last' = Append(last, INIT_WATCH_VALUE)
  /\ scope' = [scope EXCEPT ![s].watchers = <<Len(wdef) + 1>> \o @]
  /\ lastDirtyWatch' = 0
  /\ UNCHANGED <<ldef, group, coll, once, compiled, data, asyncQueue, applyAsyncQueue,
                 postDigestQueue, applyAsyncId, timers, stack, ret>>
  /\ Observe(None)

\* scope.$watch(expr, listenerFn, valueEq) with a one-time expression: '::x' where
\* x is data[gets[1]], or the literal '::[x, y]' over data[gets[1]] and
\* data[gets[2]]; the delegate registers () => watchFn(scope) with its own listener
WatchOnce(s, gets, literal, listenerFn, valueEq) ==
  LET o == Len(once.delegates) + 1 IN
  /\ Idle
  /\ ~scope[s].destroyed
  /\ Len(wdef) < MaxWatchers
  /\ once' = [once EXCEPT !.delegates =
                 Append(@, [w |-> Len(wdef) + 1, fn |-> listenerFn, literal |-> literal,
                            gets |-> gets, lastValue |-> UNDEFINED])]
  /\ wdef' = Append(wdef, [s |-> s, get |-> IF literal THEN 0 ELSE gets[1], gfx |-> None,
                           fn |-> E("oneTimeListener", o, 0), valueEq |-> valueEq])
  /\ last' = Append(last, INIT_WATCH_VALUE)
  /\ scope' = [scope EXCEPT ![s].watchers = <<Len(wdef) + 1>> \o @]
  /\ lastDirtyWatch' = 0
  /\ UNCHANGED <<ldef, group, coll, tracked, compiled, data, asyncQueue, applyAsyncQueue, postDigestQueue,
                 applyAsyncId, timers, stack, ret>>
  /\ Observe(None)

\* the application changes a watched value
SetData(x, v) == data[x] # v /\ Call(E("set", x, v))

DigestCall(s) == Call(E("digest", s, 0))
ApplyCall(s, t) == Call(E("apply", s, t))
EvalAsync(s, t) == Call(E("evalAsync", s, t))
ApplyAsync(s, t) == Call(E("applyAsync", s, t))
PostDigest(t) == Call(E("postDigest", 0, t))
EmitCall(s, eventName) == Call(E("emit", s, eventName))
BroadcastCall(s, eventName) == Call(E("broadcast", s, eventName))

\* scope.$on(eventName, listener)
OnCall(s, eventName, fn) ==
  /\ Idle
  /\ Len(ldef) < MaxListeners
  /\ ldef' = Append(ldef, [s |-> s, name |-> eventName, fn |-> fn, of |-> Len(ldef) + 1])
  /\ scope' = Pushed(scope, s, eventName, Len(ldef) + 1)
  /\ UNCHANGED <<wdef, group, coll, once, tracked, compiled, last, data, asyncQueue, applyAsyncQueue, postDigestQueue,
                 lastDirtyWatch, applyAsyncId, timers, stack, ret>>
  /\ Observe(None)

\* scope.$on(eventName, listener) once more with the function of registration l
OnSame(l) ==
  /\ Idle
  /\ Len(ldef) < MaxListeners
  /\ ldef' = Append(ldef, ldef[l])
  /\ scope' = Pushed(scope, ldef[l].s, ldef[l].name, Len(ldef) + 1)
  /\ UNCHANGED <<wdef, group, coll, once, tracked, compiled, last, data, asyncQueue, applyAsyncQueue, postDigestQueue,
                 lastDirtyWatch, applyAsyncId, timers, stack, ret>>
  /\ Observe(None)

\* $new with the attributes copied when the child is made
NewSnapshot(this, isolate, parent) ==
  /\ Idle
  /\ Len(scope) < MaxScopes
  /\ LET child == IF isolate
                    THEN [root |-> scope[parent].root, parent |-> parent, proto |-> 0,
                          children |-> <<>>, watchers |-> <<>>, listeners |-> NoListeners, held |-> <<>>,
                          phase |-> "null", queues |-> ReadQueues(parent),
                          attr |-> ABSENT, destroyed |-> FALSE]
                    ELSE [root |-> scope[this].root, parent |-> parent, proto |-> this,
                          children |-> <<>>, watchers |-> <<>>, listeners |-> NoListeners, held |-> <<>>,
                          phase |-> "absent", queues |-> 0, attr |-> ReadAttr(this), destroyed |-> FALSE]
     IN scope' = Append([scope EXCEPT ![parent].children = Append(@, Len(scope) + 1)],
                        child)
  /\ UNCHANGED <<wdef, ldef, group, coll, once, tracked, compiled, last, data, asyncQueue, applyAsyncQueue, postDigestQueue,
                 lastDirtyWatch, applyAsyncId, timers, stack, ret>>
  /\ Observe(E("new", this, IF isolate THEN 1 ELSE 0))

\* this.$new(isolate, parent)
New(this, isolate, parent) ==
  /\ Idle
  /\ Len(scope) < MaxScopes
  /\ LET child == IF isolate
                    THEN [root |-> scope[parent].root, parent |-> parent, proto |-> 0,
                          children |-> <<>>, watchers |-> <<>>, listeners |-> NoListeners, held |-> <<>>,
                          phase |-> "null", queues |-> ReadQueues(parent),
                          attr |-> ABSENT, destroyed |-> FALSE]
                    ELSE [root |-> scope[this].root, parent |-> parent, proto |-> this,
                          children |-> <<>>, watchers |-> <<>>, listeners |-> NoListeners, held |-> <<>>,
                          phase |-> "absent", queues |-> 0, attr |-> ABSENT, destroyed |-> FALSE]
     IN scope' = Append([scope EXCEPT ![parent].children = Append(@, Len(scope) + 1)],
                        child)
  /\ UNCHANGED <<wdef, ldef, group, coll, once, tracked, compiled, last, data, asyncQueue, applyAsyncQueue, postDigestQueue,
                 lastDirtyWatch, applyAsyncId, timers, stack, ret>>
  /\ Observe(E("new", this, IF isolate THEN 1 ELSE 0))

\* the object new Scope() makes, as scope number id
Constructed(id) ==
  [root |-> id, parent |-> 0, proto |-> 0, children |-> <<>>, watchers |-> <<>>,
   listeners |-> NoListeners, held |-> <<>>, phase |-> "null", queues |-> id, attr |-> ABSENT, destroyed |-> FALSE]

\* new Scope(), the first one
RootScope == Constructed(ROOT)

\* new Scope(), another one
NewScope ==
  /\ Idle
  /\ Len(scope) < MaxScopes
  /\ scope' = Append(scope, Constructed(Len(scope) + 1))
  /\ UNCHANGED <<wdef, ldef, group, coll, once, tracked, compiled, last, data, asyncQueue, applyAsyncQueue, postDigestQueue,
                 lastDirtyWatch, applyAsyncId, timers, stack, ret>>
  /\ Observe(E("new", 0, 1))

\* the destroyer $on returned for listener l
OffCall(l) == Call(E("off", l, 0))

\* scope.$destroy()
DestroyCall(s) == Call(E("destroy", s, 0))

\* scope.attr = v
SetAttr(s, v) == scope[s].attr # v /\ Call(E("setAttr", s, v))

InitRoot ==
  /\ scope = <<RootScope>>
  /\ wdef = <<>>
  /\ ldef = <<>>
  /\ group = <<>>
  /\ coll = <<>>
  /\ once = [delegates |-> <<>>, checks |-> <<>>]
  /\ tracked = <<>>
  /\ compiled = <<>>
  /\ last = <<>>
  /\ asyncQueue = <<>>
  /\ applyAsyncQueue = <<>>
  /\ postDigestQueue = <<>>
  /\ lastDirtyWatch = 0
  /\ applyAsyncId = 0
  /\ timers = [eval |-> 0, apply |-> {}]
  /\ stack = <<>>
  /\ ret = "ok"
  /\ hist = [destroyed |-> <<>>, prev |-> <<>>, fired |-> <<>>, quiet |-> 0,
             lit |-> FALSE, rounds |-> 0, seen |-> {}, removed |-> {},
             fresh |-> 0, same |-> FALSE,
             made |-> <<[this |-> 0, isolate |-> TRUE]>>, wrote |-> {},
             fires |-> <<>>, heard |-> <<>>, offed |-> {},
             calls |-> <<>>, round |-> <<>>, given |-> <<>>, stirred |-> {},
             heeded |-> <<>>, firings |-> <<>>, shown |-> <<>>,
             ungrouped |-> {}, born |-> {}]

\* the running call takes its next step
RunDigest == Digest /\ Observe(Resolve(CurEffect))
RunFlush == Flush /\ Observe(Resolve(CurEffect))
RunApply == Apply /\ Observe(Resolve(CurEffect))
RunEmit == Emit /\ Observe(Resolve(CurEffect))
RunBroadcast == Broadcast /\ Observe(Resolve(CurEffect))
RunDestroy == ScopeDestroy /\ Observe(None)

-----------------------------------------------------------------------------
(* The watchers of the programs under test: the value watched is data[get]  *)
(* (undefined when get = 0), gfx is what the watchFn does besides, fn what   *)
(* the listener does.                                                        *)

Def(get, gfx, fn, valueEq) == [get |-> get, gfx |-> gfx, fn |-> fn, valueEq |-> valueEq]

-----------------------------------------------------------------------------
(* Programs that keep a digest busy: two watchers whose listeners raise     *)
(* each other's watched value up to a limit, a watchFn that calls           *)
(* $evalAsync on every evaluation, a task that enqueues itself again, a     *)
(* listener that throws.                                                    *)

\* the number of watchers such a program registers
MaxBusy == 2

InitTtl ==
  /\ InitRoot
  /\ \E limit \in 0..MaxLimit : data = <<0, 0, limit>>

DefsTtl ==
  { Def(1, None, E("incTo", 2, 3), FALSE),
    Def(2, None, E("incTo", 1, 3), FALSE),
    Def(0, E("evalAsync", 0, 1), None, FALSE),
    Def(0, E("evalAsync", 0, 4), None, FALSE),
    Def(1, None, E("throw", 0, 0), FALSE) }

NextTtl ==
  \/ RunDigest
  \/ \E d \in DefsTtl : Len(wdef) < MaxBusy /\ Watch(ROOT, d)
  \/ DigestCall(ROOT)

\* a call that has started runs on: JavaScript runs it to completion
SpecTtl == InitTtl /\ [][NextTtl]_vars /\ WF_vars(RunDigest)

TtlError == "Maximum $watch TTL exceeded"

\* the positions of $digest inside its do-loop
InPass == {"drain", "task", "watcher", "get", "getRet", "listener", "fnRet", "children",
           "passEnd"}

\* the running call is a $digest called from the top level
Bottom == Len(stack) = 1 /\ top.kind = "digest"

C1_AtMostTen ==
  \A i \in 1..Len(stack) :
    stack[i].kind = "digest" =>
      /\ stack[i].ttl \in 0..TTL
      /\ stack[i].pc \in InPass => stack[i].ttl >= 1

\* the 10th pass ends having run a listener to its end or with a task queued
TenthDirty == top.pc = "passEnd" /\ top.ttl = 1 /\ (hist.lit \/ asyncQueue # <<>>)

C1_Throws ==
  Bottom =>
    /\ (stack' = <<>> /\ ret' = TtlError) <=> TenthDirty
    /\ top.pc = "passEnd" /\ ~TenthDirty =>
         /\ stack' # <<>>
         /\ top'.pc = "post" <=> (~hist.lit /\ asyncQueue = <<>>)
    /\ (stack' = <<>> /\ ret' = "ok") => top.pc = "post"

\* a queued task is run that enqueues a task again
Requeue == ~Idle /\ top.pc = "task" /\ Task(top.cur.expression).op = "evalAsync"

PingPong ==
  /\ Len(wdef) = 2
  /\ {<<wdef[i].get, wdef[i].fn>> : i \in 1..2}
       = {<<1, E("incTo", 2, 3)>>, <<2, E("incTo", 1, 3)>>}

\* C2: a pair of watchers that dirty each other in n passes of one $digest makes
\* the digest settle after n+1 passes, for n up to 9; when they do in 10 passes
\* the digest raises the TTL error.
C2_Settles ==
  PingPong =>
    /\ (Bottom /\ top.pc = "post") =>
         /\ hist.rounds <= TTL - 1
         /\ TTL - top.ttl = hist.rounds + 1
    /\ (Bottom /\ top.pc \in InPass) => TTL - top.ttl <= hist.rounds
    /\ (Idle /\ ret = TtlError) <=> (Idle /\ hist.rounds = TTL)

\* the pair settled in the 10th pass
C2_Witness == PingPong /\ Bottom /\ top.pc = "post" /\ hist.rounds = TTL - 1

-----------------------------------------------------------------------------
(* Programs whose listeners throw or defer work: a listener that throws, a  *)
(* listener that defers `data[2] = data[1]` with $evalAsync, plain watchers. *)

InitFire ==
  /\ InitRoot
  /\ data = <<0, 0, 0>>

DefsFire ==
  { Def(1, None, E("throw", 0, 0), FALSE),
    Def(1, None, E("evalAsync", 0, 5), FALSE),
    Def(1, None, None, FALSE),
    Def(2, None, None, FALSE) }

ValuesFire == {0, 1, NAN, UNDEFINED}

NextFire ==
  \/ RunDigest
  \/ \E d \in DefsFire : Watch(ROOT, d)
  \/ \E v \in ValuesFire : SetData(1, v)
  \/ DigestCall(ROOT)

SpecFire == InitFire /\ [][NextFire]_vars

\* C3: after a $digest that returned normally with nothing queued, one more
\* $digest on the same scope, with nothing done in between, invokes no listener.
C3_SecondDigestQuiet ==
  (hist.quiet # 0 /\ ~Idle) => top.pc # "listener"

\* C4: a listener's first invocation gets newValue as oldValue, never the initial
\* sentinel; every later invocation gets as oldValue the newValue of the
\* invocation before.
C4_OldValue ==
  (~Idle /\ top.kind = "digest" /\ top.pc = "listener") =>
    LET w == top.w
        oldValueToPass == OldValueToPass(top.nv, last[w])
    IN /\ oldValueToPass # INIT_WATCH_VALUE
       /\ hist.fired[w] = 0 => oldValueToPass = top.nv
       /\ hist.fired[w] > 0 => oldValueToPass = hist.prev[w]

-----------------------------------------------------------------------------
(* Programs that remove watchers: a watchFn or a listener that calls the    *)
(* destructor of a watcher, and the application that does.                   *)

InitRemove ==
  /\ InitRoot
  /\ data = <<0, 0, 0>>

DefsRemove ==
  { Def(1, None, None, FALSE) }
    \cup { Def(1, E("rm", k, 0), None, FALSE) : k \in 1..MaxWatchers }
    \cup { Def(1, None, E("rm", k, 0), FALSE) : k \in 1..MaxWatchers }

NextRemove ==
  \/ RunDigest
  \/ \E d \in DefsRemove : Watch(ROOT, d)
  \/ \E w \in Watchers : Destroy(w)
  \/ DigestCall(ROOT)

SpecRemove == InitRemove /\ [][NextRemove]_vars

\* C5: once the destructor of a watcher has been called, its watchFn is not
\* evaluated again, and its listener is invoked at most in the very turn whose
\* watchFn called the destructor.
C5_Destroyed ==
  (~Idle /\ top.kind = "digest") =>
    /\ top.pc = "get" => hist.destroyed[top.w] = 0
    /\ top.pc = "listener" => hist.destroyed[top.w] \in {0, 1}

\* a pass ends in which a watcher was removed, another one destroyed before
C5_Witness ==
  /\ Bottom /\ top.pc = "passEnd"
  /\ hist.removed # {}
  /\ \E w \in Watchers : hist.destroyed[w] = 2 /\ hist.fired[w] = 0
  /\ \E w \in Watchers : hist.destroyed[w] = 2 /\ hist.fired[w] > 0

\* C6: at the end of a pass in which a watchFn or listener removed a watcher of a
\* scope, every watcher the scope still has was evaluated in that pass.
C6_NoSkip ==
  (Bottom /\ top.pc = "passEnd") =>
    \A sc \in hist.removed :
      \A i \in 1..Len(scope[sc].watchers) : scope[sc].watchers[i] \in hist.seen

-----------------------------------------------------------------------------
(* Programs that call back into the scope tree: a root with a child,        *)
(* inheriting or isolated, and listeners that call $digest or $apply on a    *)
(* scope of the tree or defer a task.                                        *)

InitTree ==
  /\ InitRoot
  /\ data = <<0, 0, 0>>

DefsTree ==
  { Def(1, None, E("evalAsync", 0, 1), FALSE) }
    \cup { Def(1, None, E("digest", k, 0), FALSE) : k \in Scopes }
    \cup { Def(1, None, E("apply", k, 1), FALSE) : k \in Scopes }

NextTree ==
  \/ RunDigest
  \/ RunApply
  \/ Len(scope) < MaxFlat /\ \E isolate \in BOOLEAN : New(ROOT, isolate, ROOT)
  \/ \E sc \in Scopes, d \in DefsTree : Watch(sc, d)
  \/ \E sc \in Scopes : DigestCall(sc)
  \/ \E sc \in Scopes : ApplyCall(sc, 1)

SpecTree == InitTree /\ [][NextTree]_vars

\* the calls on the stack that are inside the do-loop of $digest
Loops == {i \in 1..Len(stack) : stack[i].kind = "digest" /\ stack[i].pc \in InPass}

\* the call at depth i is the $root.$digest() that ends an $apply called from the
\* top level
ClosesApply(i) == i = 2 /\ stack[1].kind = "apply" /\ stack[1].pc = "finRet"

\* C8: a $digest or $apply called while a $digest or $apply of the tree is
\* running fails with '<phase> already in progress.' before doing anything:
\* $digest does not get past $beginPhase, $apply neither evaluates nor digests,
\* and no two digest loops are active at the same time.
C8_NoReentry ==
  /\ Cardinality(Loops) <= 1
  /\ \A i \in 2..Len(stack) :
       /\ (stack[i].kind = "digest" /\ ~ClosesApply(i)) => stack[i].pc = "begin"
       /\ stack[i].kind = "apply" =>
            \/ stack[i].pc = "begin"
            \/ stack[i].pc = "finally" /\ stack[i].exc # "ok"

\* C9: a task a watchFn or listener enqueued in pass p of a $digest is run by
\* that $digest call, at the start of its pass p+1; it is not in the queue any
\* more when a watcher of pass p+1 is evaluated or when that $digest is over.
C9_SameDigest ==
  /\ (~Idle /\ top.kind = "digest" /\ top.pc = "task" /\ top.cur.by[2] > 0) =>
       /\ top.cur.by[1] = Len(stack)
       /\ top.cur.by[2] + 1 = TTL + 1 - top.ttl
  /\ \A j \in 1..Len(asyncQueue) :
       LET by == asyncQueue[j].by IN
       by[2] > 0 =>
         /\ by[1] <= Len(stack)
         /\ stack[by[1]].kind = "digest"
         /\ stack[by[1]].pc \in InPass \ {"drain", "task"} =>
              TTL + 1 - stack[by[1]].ttl = by[2]

\* the call at depth i is running a callback: it is about to call it, or the
\* callback has made the call above it
Runs(i, about, back) ==
  IF i = Len(stack) THEN stack[i].pc \in about ELSE stack[i].pc \in back

PhaseIdle == Idle => \A s \in Scopes : ReadPhase(s) = "null"

PhaseDigest ==
  \A i \in 1..Len(stack) :
    (stack[i].kind = "digest" /\ Runs(i, {"get", "listener", "task"},
                                      {"getRet", "fnRet", "drain"}))
      => ReadPhase(stack[i].this) = "$digest"

PhaseApply ==
  \A i \in 1..Len(stack) :
    (stack[i].kind = "apply" /\ Runs(i, {"eval"}, {"evalRet"}))
      => ReadPhase(stack[i].this) = "$apply"

\* C32: when no $digest or $apply is running, $$phase is null on every scope;
\* while $digest runs a watchFn, a listener or a task of $$asyncQueue the
\* $$phase of the scope it was called on is '$digest', and while $apply runs
\* its expression it is '$apply'.
C32_Phase == PhaseIdle /\ PhaseDigest /\ PhaseApply

\* the step of a $digest or $apply call that finds a phase set
Rejects(kind) ==
  /\ ~Idle
  /\ top.kind = kind /\ top.pc = "begin"
  /\ ReadPhase(top.this) # "null"

\* the call ends there with the error and has changed nothing
ReturnsUntouched ==
  /\ UNCHANGED heap
  /\ stack' = SubSeq(stack, 1, Len(stack) - 1)
  /\ ret' = ReadPhase(top.this) \o " already in progress."

RejectedDigest == [][Rejects("digest") => ReturnsUntouched]_vars

RejectedApply == [][Rejects("apply") => ReturnsUntouched]_vars

\* C37: a $digest or $apply call that finds a phase active throws at once and
\* changes nothing: $$phase and $root.$$lastDirtyWatch stay as they are, no
\* expression is evaluated and no digest is started.
C37_Rejected == [][(Rejects("digest") \/ Rejects("apply")) => ReturnsUntouched]_vars

-----------------------------------------------------------------------------
(* Programs that defer work from the top level: the application calls       *)
(* $evalAsync when nothing runs, the timers fire; one watchFn calls          *)
(* $evalAsync on every evaluation.                                           *)

InitTimer ==
  /\ InitRoot
  /\ data = <<0, 0, 0>>

DefsTimer ==
  { Def(1, None, None, FALSE),
    Def(0, E("evalAsync", 0, 1), None, FALSE) }

NextTimer ==
  \/ RunDigest
  \/ TimerEvalAsync
  \/ \E d \in DefsTimer : Watch(ROOT, d)
  \/ EvalAsync(ROOT, 1)
  \/ DigestCall(ROOT)

\* a call that has started runs to its end, a pending timer fires; the
\* application need not call anything
SpecTimer ==
  InitTimer /\ [][NextTimer]_vars /\ WF_vars(RunDigest) /\ WF_vars(TimerEvalAsync)

\* a task passed to $evalAsync while nothing was running is in the queue
QueuedFromIdle == \E j \in 1..Len(asyncQueue) : asyncQueue[j].by = <<0, 0>>

\* C10: a task passed to $evalAsync while no digest is in progress is eventually
\* taken from the queue and run, whether or not the application calls $digest.
C10_EventuallyRun == QueuedFromIdle ~> ~QueuedFromIdle

-----------------------------------------------------------------------------
(* Programs whose callbacks throw: watch functions, listeners, queued tasks  *)
(* and event listeners, each next to one that does not.                      *)

InitCatch ==
  /\ InitRoot
  /\ data = <<0, 0, 1>>

DefsCatch ==
  { Def(1, E("throw", 0, 0), None, FALSE),
    Def(1, None, E("throw", 0, 0), FALSE),
    Def(1, None, None, FALSE) }

\* the queued tasks: one that throws, one that does `if (data[1] < data[3]) data[1]++`
TasksCatch == {2, 3}

\* the application either watches and queues tasks or listens to events
NextCatch ==
  \/ RunDigest
  \/ RunFlush
  \/ RunApply
  \/ RunEmit
  \/ RunBroadcast
  \/ TimerEvalAsync
  \/ TimerApplyAsync
  \/ ldef = <<>> /\ Len(wdef) < MaxPending /\ \E d \in DefsCatch : Watch(ROOT, d)
  \/ ldef = <<>> /\ Len(asyncQueue) < MaxPending /\ \E t \in TasksCatch : EvalAsync(ROOT, t)
  \/ ldef = <<>> /\ Len(applyAsyncQueue) < MaxPending /\ ApplyAsync(ROOT, 2)
  \/ ldef = <<>> /\ Len(postDigestQueue) < MaxPending /\ PostDigest(2)
  \/ ldef = <<>> /\ DigestCall(ROOT)
  \/ wdef = <<>> /\ Len(scope) < MaxFlat /\ New(ROOT, FALSE, ROOT)
  \/ /\ wdef = <<>> /\ asyncQueue = <<>> /\ applyAsyncQueue = <<>> /\ postDigestQueue = <<>>
     /\ \E sc \in Scopes, fn \in {E("throw", 0, 0), E("set", 2, 1)} :
          OnCall(sc, SomeEvent, fn)
  \/ ldef # <<>> /\ \E sc \in Scopes : EmitCall(sc, SomeEvent)
  \/ ldef # <<>> /\ \E sc \in Scopes : BroadcastCall(sc, SomeEvent)

SpecCatch == InitCatch /\ [][NextCatch]_vars

\* the running call after its step, while it has not returned
Same == stack'[Len(stack)]

\* how the running call goes on after the callback it called threw
Continues ==
  CASE top.kind = "digest" /\ top.pc \in {"getRet", "fnRet"} ->
         \* on to the watcher at the next index
         Len(stack') = Len(stack) /\ Same.pc = "watcher" /\ Same.idx = top.idx
    [] top.kind = "digest" /\ top.pc = "drain" ->
         /\ Len(stack') = Len(stack)
         /\ IF asyncQueue # <<>>
              THEN Same.pc = "task" /\ Same.cur = Head(asyncQueue)
              ELSE Same.pc = "watcher"
    [] top.kind = "digest" /\ top.pc = "post" ->
         IF postDigestQueue # <<>>
           THEN Len(stack') = Len(stack) /\ Same.pc = "postCall"
           ELSE stack' = Pop /\ ret' = "ok"
    [] top.kind = "flush" ->
         IF applyAsyncQueue # <<>>
           THEN Len(stack') = Len(stack) /\ Same.pc = "call"
                  /\ Same.cur = Head(applyAsyncQueue)
           ELSE stack' = Pop /\ ret' = "ok"
    [] top.kind \in {"emit", "broadcast"} ->
         IF top.idx <= Len(FireArray(top))
           THEN Len(stack') >= Len(stack) /\ Same.sc = top.sc
           ELSE (stack' = Pop /\ ret' = "ok") \/ Len(stack') = Len(stack)
    [] OTHER -> TRUE

C7_Step ==
  /\ (~Idle /\ ret = "Error") => Continues
  /\ (~Idle /\ top.kind \in {"digest", "flush", "emit", "broadcast"}
        /\ Len(stack') < Len(stack)) => ret' # "Error"

\* C7: an exception thrown by a watchFn, a listener, a queued task or an event
\* listener is caught: the call that ran it goes on with the next watcher, task
\* or listener, and no $digest, $emit or $broadcast ends with that exception.
C7_Caught == [][C7_Step]_vars

\* a listener has thrown while watchers remain in the pass
C7_Witness ==
  /\ ~Idle /\ ret = "Error"
  /\ top.kind = "digest" /\ top.pc = "fnRet" /\ top.idx > 0
  /\ asyncQueue = <<>> /\ postDigestQueue # <<>>

-----------------------------------------------------------------------------
(* Programs that defer work with $applyAsync: from the top level, from a     *)
(* listener, from a deferred function itself; on a root with a child; one    *)
(* deferred function and one listener call $root.$digest().                  *)

InitApplyAsync ==
  /\ InitRoot
  /\ data = <<0, 0, 0>>

DefsApplyAsync ==
  { Def(1, None, None, FALSE),
    Def(1, None, E("applyAsync", 0, 1), FALSE),
    Def(1, None, E("digest", ROOT, 0), FALSE) }

\* the deferred functions: one that does nothing, one that calls $applyAsync,
\* one that calls $root.$digest()
TasksApplyAsync == {1, 6, 7}

NextApplyAsync ==
  \/ RunDigest
  \/ RunFlush
  \/ RunApply
  \/ TimerApplyAsync
  \/ Len(scope) < MaxFlat /\ \E isolate \in BOOLEAN : New(ROOT, isolate, ROOT)
  \/ Len(wdef) < MaxPending /\ \E sc \in Scopes, d \in DefsApplyAsync : Watch(sc, d)
  \/ Len(applyAsyncQueue) < MaxPending
       /\ \E sc \in Scopes, t \in TasksApplyAsync : ApplyAsync(sc, t)
  \/ \E sc \in Scopes : DigestCall(sc)

SpecApplyAsync == InitApplyAsync /\ [][NextApplyAsync]_vars

\* C11: a task passed to $applyAsync is not run in the $digest during which
\* $applyAsync was called: $$flushApplyAsync never calls a task that was queued
\* while the $digest that is still running was.
C11_NotSameDigest == ~(~Idle /\ top.kind = "flush" /\ top.pc = "call" /\ hist.same)

\* the bottom call is the $apply of the applyAsync timer
TimerApply == ~Idle /\ stack[1].kind = "apply" /\ stack[1].e.op = "flush"

\* at most one applyAsync timer is pending
OneTimer == Cardinality(timers.apply) <= 1

\* tasks wait for a timer
TimerForQueue == (Idle /\ applyAsyncQueue # <<>>) => timers.apply # {}

\* once the timer fired, the tasks are run by the $$flushApplyAsync of its $apply,
\* and the only digest is the $root.$digest() that ends that $apply
OneApply ==
  TimerApply =>
    \A i \in 2..Len(stack) :
      /\ stack[i].kind = "flush" => i = 2
      /\ (stack[i].kind = "digest" /\ stack[i].pc # "begin") => ClosesApply(i)

\* C12: $applyAsync coalesces: at most one timer is pending, queued tasks have a
\* timer pending whenever nothing is running, and the timer's $apply runs all
\* of them in its one flush, followed by one digest from the root.
C12_Coalesces == OneTimer /\ TimerForQueue /\ OneApply

\* a $digest gets past $beginPhase while an applyAsync timer is pending: no timer
\* is pending afterwards and $$flushApplyAsync is called
PreemptStep ==
  (~Idle /\ top.kind = "digest" /\ top.pc = "begin" /\ ReadPhase(top.this) = "null"
     /\ timers.apply # {}) =>
    /\ timers'.apply = {}
    /\ Len(stack') = Len(stack) + 1
    /\ stack'[Len(stack')].kind = "flush"

\* C13: a $digest that starts while an applyAsync timer is pending cancels the
\* timer and flushes the queue before it evaluates a watcher; the timer does
\* not fire later.
C13_Preempts == [][PreemptStep]_vars

-----------------------------------------------------------------------------
(* Programs that queue functions with $$postDigest: a function that changes  *)
(* the watched value and one that does nothing, on a root with a child whose *)
(* listeners may call $root.$digest().                                       *)

InitPost ==
  /\ InitRoot
  /\ data = <<0, 0, 0>>

DefsPost ==
  { Def(1, None, None, FALSE),
    Def(1, None, E("postDigest", 0, 8), FALSE),
    Def(1, None, E("digest", ROOT, 0), FALSE) }

NextPost ==
  \/ RunDigest
  \/ Len(scope) < MaxFlat /\ \E isolate \in BOOLEAN : New(ROOT, isolate, ROOT)
  \/ Len(wdef) < MaxPending /\ \E sc \in Scopes, d \in DefsPost : Watch(sc, d)
  \/ Len(postDigestQueue) < MaxPending /\ \E t \in {1, 8} : PostDigest(t)
  \/ \E sc \in Scopes : DigestCall(sc)

SpecPost == InitPost /\ [][NextPost]_vars

\* C14: a function queued with $$postDigest is called after the digest loop has
\* terminated and the phase has been cleared: when $digest calls one, no $digest
\* of the tree is inside its loop and no scope of the tree has a phase set.
C14_AfterLoop ==
  (~Idle /\ top.kind = "digest" /\ top.pc = "postCall") =>
    /\ Loops = {}
    /\ \A sc \in Scopes : scope[sc].phase \in {"null", "absent"}

-----------------------------------------------------------------------------
(* Programs that call $apply and $evalAsync on the scopes of a tree with     *)
(* children and grandchildren, inheriting or isolated; the expression given  *)
(* to $apply does nothing, throws or changes the watched value.              *)

InitRoots ==
  /\ InitRoot
  /\ data = <<0, 0, 0>>

NextRoots ==
  \/ RunDigest
  \/ RunApply
  \/ TimerEvalAsync
  \/ \E this \in Scopes, isolate \in BOOLEAN : New(this, isolate, this)
  \/ Len(wdef) < MaxPending /\ \E sc \in Scopes : Watch(sc, Def(1, None, None, FALSE))
  \/ \E sc \in Scopes, t \in {1, 2, 8} : ApplyCall(sc, t)
  \/ asyncQueue = <<>> /\ \E sc \in Scopes : EvalAsync(sc, 1)

SpecRoots == InitRoots /\ [][NextRoots]_vars

ApplyStep ==
  ~Idle /\ top.kind = "apply" =>
    /\ top.pc = "eval" => ReadPhase(top.this) = "$apply"
    /\ top.pc = "evalRet" =>
         /\ Len(stack') = Len(stack)
         /\ stack'[Len(stack)].pc = "finally"
    /\ top.pc = "finally" =>
         /\ Len(stack') = Len(stack) + 1
         /\ stack'[Len(stack')] = Frame("digest", scope[top.this].root, None)

TimerStep ==
  (Idle /\ stack' # <<>> /\ timers'.eval < timers.eval) =>
    stack' = <<Frame("digest", ROOT, None)>>

-----------------------------------------------------------------------------
(* Programs that digest a scope of a tree with children and grandchildren;   *)
(* a watchFn may call the destructor of another watcher.                     *)

InitWalk ==
  /\ InitRoot
  /\ data = <<0, 0, 0>>

DefsWalk ==
  { Def(1, None, None, FALSE) }
    \cup { Def(1, E("rm", k, 0), None, FALSE) : k \in 1..MaxWatchers }

NextWalk ==
  \/ RunDigest
  \/ \E this \in Scopes, isolate \in BOOLEAN : New(this, isolate, this)
  \/ \E sc \in Scopes, d \in DefsWalk :
       \* a watchFn that calls a destructor calls that of the next watcher registered
       /\ d.gfx.op = "rm" => d.gfx.a = Len(wdef) + 2
       /\ Watch(sc, d)
  \/ \E sc \in Scopes : DigestCall(sc)

SpecWalk == InitWalk /\ [][NextWalk]_vars

\* scope x is s or an attached descendant of s
RECURSIVE Attached(_, _)
Attached(x, s) ==
  \/ x = s
  \/ /\ scope[x].parent # 0
     /\ IndexOf(scope[scope[x].parent].children, x) > 0
     /\ Attached(scope[x].parent, s)

\* the watchers a scope has
WatchersOf(x) ==
  IF scope[x].destroyed THEN {}
  ELSE {scope[x].watchers[i] : i \in 1..Len(scope[x].watchers)}

\* C16: $digest on s evaluates the watchers of s and of its attached descendants,
\* a scope's own before those of its children, and no watcher of another scope:
\* every watcher it evaluates is in the subtree, the watchers of the parent
\* have been evaluated before those of a child, and at the end of the first pass
\* every watcher of the subtree has been evaluated.
C16_Subtree ==
  /\ (Bottom /\ top.pc = "get") =>
       /\ Attached(wdef[top.w].s, top.this)
       /\ wdef[top.w].s # top.this =>
            WatchersOf(scope[wdef[top.w].s].parent) \subseteq hist.seen
  /\ (Bottom /\ top.pc = "passEnd" /\ top.ttl = TTL) =>
       \A x \in Scopes : Attached(x, top.this) => WatchersOf(x) \subseteq hist.seen

-----------------------------------------------------------------------------
(* Programs that build scope trees: new Scope(), $new with and without the   *)
(* isolate flag, with and without a parent other than the scope $new is      *)
(* called on, and assignments to an attribute.                               *)

InitNew ==
  /\ InitRoot
  /\ data = <<0, 0, 0>>

NextNew ==
  \/ NewScope
  \/ \E this \in Scopes, isolate \in BOOLEAN, parent \in Scopes : New(this, isolate, parent)
  \/ \E sc \in Scopes, v \in {0, 1} : SetAttr(sc, v)

SpecNew == InitNew /\ [][NextNew]_vars

\* C17: for every scope s, s.$root === (s.$parent ? s.$parent.$root : s).
C17_Root ==
  \A sc \in Scopes :
    scope[sc].root = IF scope[sc].parent # 0 THEN scope[scope[sc].parent].root ELSE sc

\* C18: every scope made by $new uses the queue arrays of its $parent.
C18_Queues ==
  \A sc \in Scopes :
    scope[sc].parent # 0 => ReadQueues(sc) = ReadQueues(scope[sc].parent)

\* c was made by a $new without the isolate flag
Inheriting(c) == hist.made[c].this # 0 /\ ~hist.made[c].isolate

\* c reads the attributes it does not have itself from x, directly or through
\* further scopes
RECURSIVE InheritsFrom(_, _)
InheritsFrom(c, x) ==
  /\ Inheriting(c)
  /\ \/ hist.made[c].this = x
     \/ InheritsFrom(hist.made[c].this, x)

\* C19, as stated: a non-isolated child reads every attribute it was not assigned
\* itself as its $parent reads it.
C19_ParentAttr ==
  \A c \in Scopes :
    (Inheriting(c) /\ c \notin hist.wrote) => ReadAttr(c) = ReadAttr(scope[c].parent)

\* a non-isolated child that was not assigned the attribute reads it as the scope
\* $new was called on does; an isolated child that was not assigned it reads
\* undefined
ReadsPrototype ==
  \A c \in Scopes :
    c \notin hist.wrote =>
      ReadAttr(c) = IF Inheriting(c) THEN ReadAttr(hist.made[c].this) ELSE UNDEFINED

\* an assignment to the attribute of c changes what c reads and what the scopes
\* inheriting from c read, and nothing else
WriteShadows ==
  \A c \in Scopes :
    scope'[c].attr # scope[c].attr =>
      \A x \in Scopes \ {c} : ~InheritsFrom(x, c) => ReadAttr(x)' = ReadAttr(x)

\* C19, amended: the scope a non-isolated child inherits from is the one $new was
\* called on, which is its $parent only when no other parent was passed. The
\* child reads every attribute it was not assigned as that scope reads it, at all
\* times; an assignment to the child changes nothing that scope reads; an isolated
\* child reads no attribute of another scope.
C19_Inherits == []ReadsPrototype /\ [][WriteShadows]_vars

\* a child made with another scope for parent reads an attribute as the scope
\* $new was called on does, and not as its parent does
C19_Witness ==
  \E c \in Scopes :
    /\ Inheriting(c)
    /\ hist.made[c].this # scope[c].parent
    /\ c \notin hist.wrote
    /\ hist.made[c].this \in hist.wrote
    /\ ReadAttr(c) = ReadAttr(hist.made[c].this)
    /\ ReadAttr(c) # ReadAttr(scope[c].parent)

-----------------------------------------------------------------------------
(* Programs that destroy scopes: from the top level, from a watchFn and from *)
(* a listener, the scope the watcher is on or another one.                   *)

InitDestroy ==
  /\ InitRoot
  /\ data = <<0, 0, 0>>

\* the scope a watcher destroys: the one it is on (0) or the first child made
TargetsDestroy == {0, ROOT + 1}

DefsDestroy ==
  { Def(1, None, None, FALSE) }
    \cup { Def(1, E("destroy", k, 0), None, FALSE) : k \in TargetsDestroy }
    \cup { Def(1, None, E("destroy", k, 0), FALSE) : k \in TargetsDestroy }

NextDestroy ==
  \/ RunDigest
  \/ RunDestroy
  \/ RunBroadcast
  \/ \E this \in Scopes, isolate \in BOOLEAN : New(this, isolate, this)
  \/ \E sc \in Scopes, d \in DefsDestroy :
       /\ d.gfx.a <= Len(scope) /\ d.fn.a <= Len(scope)
       /\ Len(wdef) < MaxPending
       /\ Watch(sc, d)
  \/ \E sc \in Scopes : DigestCall(sc)
  \/ \E sc \in Scopes : ~scope[sc].destroyed /\ DestroyCall(sc)

SpecDestroy == InitDestroy /\ [][NextDestroy]_vars

\* $destroy has returned for s, or for a scope s is a descendant of
RECURSIVE Destroyed(_)
Destroyed(s) ==
  \/ scope[s].destroyed
  \/ scope[s].parent # 0 /\ Destroyed(scope[s].parent)

\* a is a scope above s: its $parent, or above its $parent
RECURSIVE Ancestor(_, _)
Ancestor(a, s) ==
  /\ scope[s].parent # 0
  /\ \/ scope[s].parent = a
     \/ Ancestor(a, scope[s].parent)

\* $destroy has returned for a scope that is x or above x, and a is above it
FormerAncestor(a, x) ==
  \/ scope[x].destroyed /\ Ancestor(a, x)
  \/ /\ scope[x].parent # 0
     /\ Destroyed(scope[x].parent)
     /\ \E s \in Scopes : scope[s].destroyed /\ Ancestor(s, x) /\ Ancestor(a, s)

\* C20: once $destroy has returned for a non-root scope s, s is not in its
\* parent's $$children, and no $digest of a scope that was above s calls a watchFn
\* or a listener of s or of a descendant of s, the rest of a pass that was
\* running when a watcher called $destroy included.
C20_NotDigested ==
  /\ \A s \in Scopes :
       scope[s].destroyed => IndexOf(scope[scope[s].parent].children, s) = 0
  /\ (~Idle /\ top.kind = "digest" /\ top.pc \in {"get", "listener"}) =>
       ~FormerAncestor(top.this, wdef[top.w].s)

-----------------------------------------------------------------------------
(* Programs that destroy scopes that have event listeners: listeners of      *)
(* 'someEvent' and of '$destroy' that do nothing or destroy a scope, their   *)
(* own or the first child of the root.                                       *)

InitGone ==
  /\ InitRoot
  /\ data = <<0, 0, 0>>

ListenersGone == {None, E("destroy", 0, 0), E("destroy", ROOT + 1, 0)}

NextGone ==
  \/ RunEmit
  \/ RunBroadcast
  \/ RunDestroy
  \/ \E this \in Scopes, isolate \in BOOLEAN : New(this, isolate, this)
  \/ \E sc \in Scopes, n \in EventNames, fn \in ListenersGone :
       /\ Len(ldef) < MaxPending
       /\ ~scope[sc].destroyed /\ fn.a <= Len(scope) /\ OnCall(sc, n, fn)
  \/ \E sc \in Scopes : EmitCall(sc, SomeEvent)
  \/ \E sc \in Scopes : BroadcastCall(sc, SomeEvent)
  \/ \E sc \in Scopes : DestroyCall(sc)

SpecGone == InitGone /\ [][NextGone]_vars

\* the $destroy the application called, on an attached scope that is no root,
\* is back from its $broadcast
Delivered ==
  Len(stack) = 1 /\ top.kind = "destroy" /\ top.pc = "splice"

\* then each listener of '$destroy' on the scope and on its attached descendants
\* has been called once, and the scope is not detached and has its listeners
OnceBefore ==
  Delivered =>
    /\ \A l \in 1..Len(ldef) :
         ( /\ ldef[l].name = DestroyEvent
           /\ Attached(ldef[l].s, top.this)
           /\ IndexOf(scope[ldef[l].s].listeners[DestroyEvent], l) > 0 )
           => hist.fires[l] = 1
    /\ IndexOf(scope[scope[top.this].parent].children, top.this) > 0
    /\ ~scope[top.this].destroyed

\* once $destroy has returned the scope is not among its parent's children
Detached ==
  \A s \in Scopes :
    scope[s].destroyed => IndexOf(scope[scope[s].parent].children, s) = 0

\* no $emit or $broadcast calls a listener from the $$listeners a $destroy that
\* has returned replaced
NoneAfter == Fires => top.gen = Len(scope[top.sc].held)

\* $destroy on a root returns at once
RootStep ==
  (~Idle /\ top.kind = "destroy" /\ top.this = scope[top.this].root) =>
    /\ stack' = Pop
    /\ scope' = scope
    /\ hist'.fires = hist.fires

\* C21: $destroy on an attached scope that is no root calls each listener of
\* '$destroy' on the scope and on its descendants once, before the scope is
\* detached and its listeners are dropped; afterwards no $emit or $broadcast calls
\* a listener that was registered on the scope; $destroy on the root changes
\* nothing and calls no listener.
C21_DestroyEvent == [](OnceBefore /\ Detached /\ NoneAfter) /\ [][RootStep]_vars

-----------------------------------------------------------------------------
(* Programs that dispatch an event in a tree of a parent and a child, with    *)
(* listeners that do nothing, call a destroyer (their own or that of the     *)
(* listener registered before them), or $emit the event again on one of the  *)
(* scopes.                                                                   *)

InitEvents ==
  /\ InitRoot
  /\ data = <<0, 0, 0>>

ListenersEvents ==
  {None}
    \cup {E("off", k, 0) : k \in 1..MaxListeners}
    \cup {E("emit", k, SomeEvent) : k \in 1..MaxFlat}

NextEvents ==
  \/ RunEmit
  \/ RunBroadcast
  \/ ldef = <<>> /\ Len(scope) < MaxFlat /\ \E isolate \in BOOLEAN : New(ROOT, isolate, ROOT)
  \/ \E sc \in Scopes, fn \in ListenersEvents :
       /\ fn.op = "off" => fn.a \in {Len(ldef), Len(ldef) + 1}
       /\ fn.op = "emit" => fn.a <= Len(scope)
       /\ OnCall(sc, SomeEvent, fn)
  \/ \E l \in 1..Len(ldef) : l \notin hist.offed /\ OffCall(l)
  \/ \E sc \in Scopes : EmitCall(sc, SomeEvent)
  \/ \E sc \in Scopes : BroadcastCall(sc, SomeEvent)

SpecEvents == InitEvents /\ [][NextEvents]_vars

\* a running $$fireEventOnScope has come to the end of its array
FireOver == ~Idle /\ top.kind \in {"emit", "broadcast"} /\ top.pc = "fire" /\ FireDone(top)

\* the listeners an array of $$listeners holds
Registered(arr) == {arr[i] : i \in 1..Len(arr)} \ {0}

\* C24: a listener whose destroyer has been called, before or during a dispatch,
\* is not called afterwards, and no other listener of the same event on the same
\* scope is skipped for it: when $$fireEventOnScope is through with a scope, the
\* $emit or $broadcast has called every listener the array still holds.
C24_NoSkip ==
  /\ Fires => Fired \notin hist.offed
  /\ FireOver => Registered(FireArray(top)) \subseteq hist.heard[Len(stack)]

-----------------------------------------------------------------------------
(* Programs that dispatch events of two names in trees of up to MaxScopes    *)
(* scopes, inheriting and isolated, with listeners that do nothing or call   *)
(* event.stopPropagation().                                                  *)

InitPath ==
  /\ InitRoot
  /\ data = <<0, 0, 0>>

ListenersPath == {None, E("stop", 0, 0)}

NextPath ==
  \/ RunEmit
  \/ RunBroadcast
  \/ ldef = <<>> /\ \E this \in Scopes, isolate \in BOOLEAN : New(this, isolate, this)
  \/ \E sc \in Scopes, n \in EventNames, fn \in ListenersPath :
       /\ n = DestroyEvent => fn = None
       /\ OnCall(sc, n, fn)
  \/ \E sc \in Scopes, n \in EventNames : EmitCall(sc, n)
  \/ \E sc \in Scopes, n \in EventNames : BroadcastCall(sc, n)

SpecPath == InitPath /\ [][NextPath]_vars

\* the scopes under s and s itself, in pre-order
RECURSIVE PreOrder(_), PreOrderOf(_)
PreOrderOf(ch) ==
  IF ch = <<>> THEN <<>> ELSE PreOrder(Head(ch)) \o PreOrderOf(Tail(ch))
PreOrder(s) == <<s>> \o PreOrderOf(scope[s].children)

\* the scopes from s up to its root
RECURSIVE PathUp(_)
PathUp(s) == IF scope[s].parent = 0 THEN <<s>> ELSE <<s>> \o PathUp(scope[s].parent)

\* the listeners registered for the name on the first n scopes of seq
RegisteredOn(seq, n, eventName) ==
  UNION {Registered(scope[seq[i]].listeners[eventName]) \ {ABSENT} : i \in 1..n}

\* the $emit or $broadcast the application called
BottomEvent(kind) == Len(stack) = 1 /\ top.kind = kind

\* the scopes the running dispatch goes to, in its order
Route == IF top.kind = "emit" THEN PathUp(top.this) ELSE PreOrder(top.this)

\* the listener about to be called is one of the event's name on a scope of the
\* route, and the listeners of the scopes before it on the route have been called
InOrder ==
  (Len(stack) = 1 /\ Fires) =>
    /\ ldef[Fired].name = top.name
    /\ ldef[Fired].s = top.sc
    /\ IndexOf(Route, top.sc) > 0
    /\ RegisteredOn(Route, IndexOf(Route, top.sc) - 1, top.name) \subseteq hist.heard[1]

\* $emit is about to return without having been stopped
EmitEnds ==
  BottomEvent("emit") /\ FireOver /\ scope[top.sc].parent = 0 /\ ~top.stopped

\* $broadcast is about to return
BroadcastEnds ==
  BottomEvent("broadcast") /\ top.pc = "children" /\ Len(top.walk) = 1
    /\ top.walk[1].k >= top.walk[1].n

Stoppers == {l \in hist.heard[1] : ldef[l].fn.op = "stop"}

\* once a listener has stopped an $emit, only listeners of its scope are called
StaysBelow ==
  (BottomEvent("emit") /\ Fires) => \A l \in Stoppers : ldef[l].s = top.sc

\* the loop over the listeners of a scope goes to its end after a stop
LoopEnds ==
  (BottomEvent("emit") /\ FireOver /\ top.stopped) =>
    Registered(FireArray(top)) \subseteq hist.heard[1]

\* the event of a $broadcast is never stopped, and the walk reaches every
\* listener whatever the listeners called
NeverStopped ==
  /\ (~Idle /\ top.kind = "broadcast") => ~top.stopped
  /\ (BroadcastEnds /\ Stoppers # {}) =>
       RegisteredOn(Route, Len(Route), top.name) \subseteq hist.heard[1]

\* C23: when a listener calls event.stopPropagation() during an $emit, the
\* remaining listeners of the event on the same scope are still called and no
\* listener of an ancestor is called for that $emit; the event of a $broadcast
\* cannot be stopped.
C23_Stop == StaysBelow /\ LoopEnds /\ NeverStopped

\* an $emit on a scope with a parent that has a listener of the event ends its
\* loop on the scope after a listener stopped it and a later one was called
C23_Witness ==
  /\ BottomEvent("emit") /\ FireOver /\ top.stopped
  /\ top.sc = top.this
  /\ scope[top.sc].parent # 0
  /\ Registered(FireArray(StartFire(top, scope[top.sc].parent))) # {}
  /\ \E l \in Stoppers : \E m \in hist.heard[1] : m > l /\ ldef[m].s = top.sc

-----------------------------------------------------------------------------
(* Programs with a $watchGroup over no, one or two values and a watcher of   *)
(* the first value; the listener of the group may do nothing, assign the      *)
(* second value, call the destructor of the group or throw, that of the      *)
(* watcher assigns or calls the destructor.                                  *)

InitGroup ==
  /\ InitRoot
  /\ data = <<0, 0>>

ListenersGroup == {None, E("set", 2, 1), E("ungroup", 1, 0), E("throw", 0, 0)}

GetsGroup == {<<>>, <<1>>, <<1, 2>>}

ValuesGroup == {0, 1}

NextGroup ==
  \/ RunDigest
  \/ TimerEvalAsync
  \/ \E gets \in GetsGroup, fn \in ListenersGroup : WatchGroup(ROOT, gets, fn)
  \/ \E fn \in ListenersGroup :
       /\ fn.op \in {"set", "ungroup"}
       /\ Len(wdef) < MaxPending + Len(group)
       /\ Watch(ROOT, Def(1, None, fn, FALSE))
  \/ \E g \in 1..Len(group) : g \notin hist.ungrouped /\ Ungroup(g)
  \/ \E x \in 1..Len(data), v \in ValuesGroup : SetData(x, v)
  \/ DigestCall(ROOT)

SpecGroup == InitGroup /\ [][NextGroup]_vars

\* the group whose function the running $digest has taken from $$asyncQueue
Reacts == top.cur.expression - GroupTask

\* the $digest the application called is about to call listenerFn of a group
Reacting ==
  /\ Len(stack) = 1 /\ top.kind = "digest" /\ top.pc = "task"
  /\ top.cur.expression > GroupTask
  /\ Task(top.cur.expression).op = "zeroWatch" => group[Reacts].shouldCall

\* the arrays watchGroupListener passes to listenerFn
ListenerArgs(g) ==
  IF group[g].firstRun THEN <<"newValues", "newValues">>
  ELSE <<"newValues", "oldValues">>

\* the loop of the $digest the application called is over
LoopOver == Len(stack) = 1 /\ top.kind = "digest" /\ top.pc = "post"

\* C25: the listener of a $watchGroup is called once in every $digest call in
\* which a watched expression changed (a watcher of the group found its value
\* changed), and never more than once in one $digest call.
C25_OncePerDigest ==
  /\ Reacting => hist.round[Reacts] = 0
  /\ LoopOver => \A g \in hist.stirred : hist.round[g] >= 1

\* C26: the first call of the listener of a $watchGroup gets the same array
\* twice, holding the current values; every later call gets two arrays, with
\* the current value of every expression in newValues and the value newValues
\* held at the previous call in oldValues, at every index.
C26_Arrays ==
  (Reacting /\ group[Reacts].watchers # <<>>) =>
    LET c == group[Reacts]
        args == ListenerArgs(Reacts)
    IN /\ (hist.calls[Reacts] = 0) = (args[1] = args[2])
       /\ \A i \in 1..Len(c.watchers) :
            /\ c.newValues[i] = WatchValue(c.watchers[i])
            /\ hist.calls[Reacts] > 0 => c.oldValues[i] = hist.given[Reacts][i]

\* the function an empty group passed to $evalAsync is in the queue or running
Pending(g) ==
  \/ \E i \in 1..Len(asyncQueue) : asyncQueue[i].expression = GroupTask + g
  \/ \E i \in 1..Len(stack) :
       stack[i].kind = "digest" /\ stack[i].pc = "task"
         /\ stack[i].cur.expression = GroupTask + g

\* C27: once the destructor of a $watchGroup has been called its listener is
\* not called again; the listener of a group of no expression is called once in
\* all, by the digest that takes it from the queue, and not at all when the
\* destructor was called before.
C27_Destructor ==
  /\ Reacting => Reacts \notin hist.ungrouped
  /\ \A g \in 1..Len(group) :
       group[g].watchers = <<>> =>
         /\ hist.calls[g] <= 1
         /\ (~Pending(g) /\ g \notin hist.ungrouped) => hist.calls[g] = 1

-----------------------------------------------------------------------------
(* Programs with one $watchCollection on a value the application replaces   *)
(* between digests by any primitive, array, array-like, object or function  *)
(* of the model.                                                             *)

ItemsColl == {0, NAN}

SeqsColl(n) == UNION {[1..k -> ItemsColl] : k \in 0..n}

ValuesColl ==
  {Prim(v) : v \in {UNDEFINED, NAN, 0, 1}}
    \cup {Arr(items) : items \in SeqsColl(MaxItems)}
    \cup {ArrLike(items) : items \in SeqsColl(MaxItems - 1)}
    \cup {Obj(props) : props \in [1..MaxKeys -> ItemsColl \cup {ABSENT}]}
    \cup {Fun(id) : id \in 1..2}

InitColl ==
  /\ InitRoot
  /\ data = <<Prim(UNDEFINED)>>

NextColl ==
  \/ RunDigest
  \/ coll = <<>> /\ \E track \in BOOLEAN : WatchCollection(ROOT, 1, None, track)
  \/ \E v \in ValuesColl :
       /\ \A c \in 1..Len(coll) : hist.firings[c] <= MaxFirings
       /\ SetData(1, v)
  \/ DigestCall(ROOT)

SpecColl == InitColl /\ [][NextColl]_vars

\* a change of the watched value in the sense of the claim
Changed(a, b) ==
  IF isArrayLike(a) /\ isArrayLike(b)
    THEN \/ Len(a.items) # Len(b.items)
         \/ \E i \in 1..Len(a.items) : ~simpleCompare(a.items[i], b.items[i])
  ELSE IF a.kind = "object" /\ b.kind = "object"
    THEN \/ OwnKeys(a) # OwnKeys(b)
         \/ \E k \in OwnKeys(a) : ~simpleCompare(a.props[k], b.props[k])
  ELSE IF a.kind = "prim" /\ b.kind = "prim" THEN ~simpleCompare(a.v, b.v)
  ELSE IF a.kind = "function" /\ b.kind = "function" THEN a.v # b.v
  ELSE TRUE

\* the $digest the application called is about to call the listener of a
\* $watchCollection
Heeding ==
  /\ Len(stack) = 1 /\ top.kind = "digest" /\ top.pc = "listener"
  /\ wdef[top.w].fn.op = "internalListenerFn"

Heeded == wdef[top.w].fn.a

\* the listener fires only in the first digest or for a changed value, once
FiresForChange ==
  Heeding =>
    /\ hist.heeded[Heeded] = 0
    /\ hist.firings[Heeded] = 0
         \/ Changed(hist.shown[Heeded], coll[Heeded].newValue)

\* when the loop of a digest is over the listener has fired, and it has fired
\* since the value changed last
NoChangeMissed ==
  LoopOver =>
    \A c \in 1..Len(coll) :
      hist.firings[c] >= 1 /\ ~Changed(hist.shown[c], data[coll[c].x])

CountGrows ==
  \A c \in 1..Len(coll) : coll'[c].changeCount >= coll[c].changeCount

\* C28: the listener of a $watchCollection fires once in the first digest and
\* afterwards in a digest if and only if the watched value changed since it
\* fired last (arrays and array-likes: the length or an element; objects: an
\* own key added, removed or replaced; any other value, functions included: the
\* reference, NaN being equal to NaN); the change counter never decreases.
C28_Collection == [](FiresForChange /\ NoChangeMissed) /\ [][CountGrows]_vars

-----------------------------------------------------------------------------
(* One-time expressions: '::x' and the literal '::[x, y]' watched on the    *)
(* root, x and y being undefined, 0 or 1. A literal is watched by value: by *)
(* reference the array of every evaluation is a new one. No scope is        *)
(* destroyed and the application does not call the destructors itself.      *)

ValuesOnce == {UNDEFINED, 0, 1}

InitOnce ==
  /\ InitRoot
  /\ data = <<UNDEFINED, UNDEFINED>>

ListenersOnce == {None, E("set", 1, UNDEFINED), E("throw", 0, 0)}

NextOnce ==
  \/ RunDigest
  \/ \E listenerFn \in ListenersOnce, valueEq \in BOOLEAN :
       /\ Len(once.delegates) < MaxOnce
       /\ WatchOnce(ROOT, <<1>>, FALSE, listenerFn, valueEq)
  \/ \E listenerFn \in ListenersOnce :
       /\ Len(once.delegates) < MaxOnce
       /\ WatchOnce(ROOT, <<1, 2>>, TRUE, listenerFn, TRUE)
  \/ \E x \in 1..2, v \in ValuesOnce : SetData(x, v)
  \/ DigestCall(ROOT)

SpecOnce == InitOnce /\ [][NextOnce]_vars

\* the watchers of the one-time delegates, literal or not
OneTime(literal) ==
  { once.delegates[o].w : o \in { n \in 1..Len(once.delegates) :
                                    once.delegates[n].literal = literal } }

\* the $digest the application called has run its post-digest functions and
\* is about to return
DigestOver ==
  /\ Len(stack) = 1 /\ top.kind = "digest" /\ top.pc = "post"
  /\ postDigestQueue = <<>>

\* the value the listener of w was called with last is defined
Reported(w) == hist.prev[w] \notin {INIT_WATCH_VALUE, UNDEFINED}

\* whether registered or not is as the last reported value says when $digest ends
Settled ==
  DigestOver => \A w \in OneTime(FALSE) : UnwatchFinds(w) <=> ~Reported(w)

\* the listener of a removed watcher is not invoked
Silent ==
  (~Idle /\ top.kind = "digest" /\ top.pc = "listener" /\ top.w \in OneTime(FALSE))
    => UnwatchFinds(top.w)

\* a step that removes a one-time watcher is a post-digest function's
InPostDigest ==
  \A w \in OneTime(FALSE) :
    (UnwatchFinds(w) /\ ~UnwatchFinds(w)') => top.kind = "digest" /\ top.pc = "postCall"

\* C29: a one-time watcher of a non-literal expression is registered at the end
\* of a $digest as long as the value its listener was last called with is
\* undefined, is removed by a post-digest function of the first $digest at whose
\* end that value is defined, and its listener is not invoked after the removal.
C29_OneTime == [](Settled /\ Silent) /\ [][InPostDigest]_vars

\* the literal's value now
LiteralNow(w) == WatchValue(w)

\* C30: a one-time watcher of a literal is removed only by a post-digest
\* function and only when no element of the value the literal has at the end of
\* that $digest is undefined.
C30_Literal ==
  [][\A w \in OneTime(TRUE) :
       (UnwatchFinds(w) /\ ~UnwatchFinds(w)') =>
         /\ top.kind = "digest" /\ top.pc = "postCall"
         /\ isAllDefined(LiteralNow(w))]_vars

-----------------------------------------------------------------------------
(* Expressions with inputs: 'a + b' and '[a, b]' watched on the root, by      *)
(* reference or by value, a and b being NaN, undefined, 0 or 1; the listener *)
(* does nothing or assigns a.                                                *)

ValuesInputs == {UNDEFINED, NAN, 0, 1}

InitInputs ==
  /\ InitRoot
  /\ data = <<UNDEFINED, UNDEFINED>>

NextInputs ==
  \/ RunDigest
  \/ \E expr \in {"a + b", "[a, b]"}, listenerFn \in {None, E("set", 1, 0)},
        valueEq \in BOOLEAN :
       tracked = <<>> /\ WatchInputs(ROOT, expr, listenerFn, valueEq)
  \/ \E x \in 1..2, v \in ValuesInputs :
       /\ \A c \in 1..Len(tracked) : tracked[c].made < MaxMade
       /\ SetData(x, v)
  \/ DigestCall(ROOT)

SpecInputs == InitInputs /\ [][NextInputs]_vars

\* $$digestOnce is about to call, or has just called, the watchFn of an inputs
\* delegate
Evaluating(pc) ==
  /\ ~Idle /\ top.kind = "digest" /\ top.pc = pc
  /\ wdef[top.w].gfx.op = "inputsWatchFn"

Evaluated == tracked[wdef[top.w].gfx.a]

\* after an evaluation oldValues holds the value every input has
InputsKnown ==
  Evaluating("getRet") => \A i \in 1..2 : Evaluated.oldValues[i] = data[i]

\* an evaluation computes the full expression if and only if an input is not
\* what it was at the previous evaluation, the first evaluation always;
\* otherwise lastResult is left as it is
Recomputes ==
  Evaluating("get") =>
    LET c == tracked[wdef[top.w].gfx.a]
        after == tracked'[wdef[top.w].gfx.a]
    IN IF c.made = 0 \/ \E i \in 1..2 : c.oldValues[i] # data[i]
         THEN after.made = c.made + 1
         ELSE after.made = c.made /\ after.lastResult = c.lastResult

\* what the watchFn returns has the value the full expression has now
CurrentResult ==
  Evaluating("getRet") => isEqual(Evaluated.lastResult, Compute(Evaluated.expr, data))

\* the digest finds the watcher dirty exactly when it would find a watcher of
\* the full expression dirty
SameAsPlain ==
  Evaluating("getRet") =>
    (areEqual(Evaluated.lastResult, last[top.w], wdef[top.w].valueEq)
       <=> areEqual(Compute(Evaluated.expr, data), last[top.w], wdef[top.w].valueEq))

\* C31 as stated: every evaluation of a watcher with inputs evaluates every
\* input, computes the full expression if and only if an input differs from its
\* value at the previous evaluation (always at the first), returns the previous
\* result otherwise, and so the digest goes as with a watcher of the expression
\* without inputs tracking.
C31_AsStated == [](InputsKnown /\ SameAsPlain) /\ [][Recomputes]_vars

\* C31: every evaluation of a watcher with inputs evaluates every input,
\* computes the full expression if and only if an input differs from its value
\* at the previous evaluation (always at the first) and returns the previous
\* result otherwise; what it returns is equal, element by element, to the value
\* the expression has now.
C31_Inputs == [](InputsKnown /\ CurrentResult) /\ [][Recomputes]_vars

\* the array of the first computation is returned again after the listener got it
C31_Witness ==
  /\ Evaluating("getRet")
  /\ isArrayValue(Evaluated.lastResult)
  /\ last[top.w] = Evaluated.lastResult
  /\ Evaluated.made = 1

-----------------------------------------------------------------------------
(* The analysis of the syntax tree. A node is its type, a name (of an        *)
(* identifier; of a call: "filter" for a filter without $stateful, "stateful"*)
(* for one with it, "function" for a call of a function; of a member access: *)
(* "computed" or "property") and its children (of a call: the arguments).    *)

Node(type, name, kids) == [type |-> type, name |-> name, kids |-> kids]

RECURSIVE Flat(_)
Flat(seqs) == IF seqs = <<>> THEN <<>> ELSE Head(seqs) \o Flat(Tail(seqs))

\* markConstantAndWatchExpressions: the fields constant and toWatch it gives ast
RECURSIVE markConstantAndWatchExpressions(_)
markConstantAndWatchExpressions(ast) ==
  LET marks == [i \in 1..Len(ast.kids) |-> markConstantAndWatchExpressions(ast.kids[i])]
      allConstants == \A i \in 1..Len(marks) : marks[i].constant
      argsToWatch == Flat([i \in 1..Len(marks) |->
                             IF marks[i].constant THEN <<>> ELSE marks[i].toWatch])
      stateless == ast.type = "CallExpression" /\ ast.name = "filter"
  IN
  CASE ast.type = "Literal" -> [constant |-> TRUE, toWatch |-> <<>>]
    [] ast.type = "Identifier" -> [constant |-> FALSE, toWatch |-> <<ast>>]
    [] ast.type \in {"ThisExpression", "LocalsExpression"} ->
         [constant |-> FALSE, toWatch |-> <<>>]
    [] ast.type \in {"ArrayExpression", "ObjectExpression"} ->
         [constant |-> allConstants, toWatch |-> argsToWatch]
    [] ast.type = "CallExpression" ->
         [constant |-> stateless /\ allConstants,
          toWatch |-> IF stateless THEN argsToWatch ELSE <<ast>>]
    [] ast.type = "MemberExpression" ->
         [constant |-> marks[1].constant /\ (ast.name # "computed" \/ marks[2].constant),
          toWatch |-> <<ast>>]
    [] ast.type \in {"AssignmentExpression", "LogicalExpression", "ConditionalExpression"} ->
         [constant |-> allConstants, toWatch |-> <<ast>>]
    [] ast.type = "BinaryExpression" ->
         [constant |-> allConstants, toWatch |-> marks[1].toWatch \o marks[2].toWatch]
    [] ast.type = "UnaryExpression" ->
         [constant |-> marks[1].constant, toWatch |-> marks[1].toWatch]

\* getInputs that gives the candidate only when it is one node
getInputsOfOne(body) ==
  IF Len(body) = 1
    THEN LET candidate == markConstantAndWatchExpressions(body[1]).toWatch
         IN IF Len(candidate) = 1 /\ candidate[1] # body[1] THEN candidate ELSE <<>>
    ELSE <<>>

\* getInputs(ast.body) || []
getInputs(body) ==
  IF Len(body) = 1
    THEN LET candidate == markConstantAndWatchExpressions(body[1]).toWatch
         IN IF Len(candidate) # 1 \/ candidate[1] # body[1] THEN candidate ELSE <<>>
    ELSE <<>>

isLiteral(body) ==
  \/ Len(body) = 0
  \/ Len(body) = 1
       /\ body[1].type \in {"Literal", "ArrayExpression", "ObjectExpression"}

\* ASTCompiler.compile: fn.inputs is set when there is an input (absent: <<>>),
\* one function for each
Compile(body) ==
  /\ Idle
  /\ compiled = <<>>
  /\ compiled' = <<[body |-> body,
                    inputs |-> getInputs(body),
                    literal |-> isLiteral(body),
                    constant |-> \A i \in 1..Len(body) :
                                   markConstantAndWatchExpressions(body[i]).constant]>>
  /\ UNCHANGED <<scope, wdef, ldef, group, coll, once, tracked, last, data, asyncQueue,
                 applyAsyncQueue, postDigestQueue, lastDirtyWatch, applyAsyncId, timers,
                 stack, ret, hist>>

\* the expressions of the programs compiled: the leaves, and every node type
\* over leaves
Leaves ==
  { Node("Literal", "", <<>>), Node("Identifier", "a", <<>>),
    Node("Identifier", "b", <<>>), Node("ThisExpression", "", <<>>) }

Statements ==
  Leaves
    \cup { Node("UnaryExpression", "", <<x>>) : x \in Leaves }
    \cup { Node(t, "", <<x, y>>) :
             t \in {"BinaryExpression", "LogicalExpression", "AssignmentExpression",
                    "ArrayExpression", "ObjectExpression"},
             x \in Leaves, y \in Leaves }
    \cup { Node("ArrayExpression", "", <<>>) }
    \cup { Node("CallExpression", n, <<x>>) :
             n \in {"filter", "stateful", "function"}, x \in Leaves }
    \cup { Node("CallExpression", "filter", <<x, y>>) : x \in Leaves, y \in Leaves }
    \cup { Node("MemberExpression", "property", <<x>>) : x \in Leaves }
    \cup { Node("MemberExpression", "computed", <<x, y>>) : x \in Leaves, y \in Leaves }
    \cup { Node("ConditionalExpression", "", <<x, Node("Literal", "", <<>>), y>>) :
             x \in Leaves, y \in Leaves }
    \cup { Node("BinaryExpression", "", <<Node("UnaryExpression", "", <<x>>),
                                         Node("MemberExpression", "property", <<y>>)>>) :
             x \in Leaves, y \in Leaves }

Bodies ==
  {<<>>} \cup { <<x>> : x \in Statements }
    \cup { <<x, y>> : x \in Leaves, y \in Statements }

InitCompile ==
  /\ InitRoot
  /\ data = <<>>

NextCompile == \E body \in Bodies : Compile(body)

SpecCompile == InitCompile /\ [][NextCompile]_vars

\* the toWatch of the only statement of a program
ToWatch(fn) == markConstantAndWatchExpressions(fn.body[1]).toWatch

\* C35 as stated: a compiled expression has inputs if and only if its program
\* has exactly one statement whose toWatch is exactly one node that is not the
\* statement; its inputs are then the toWatch nodes.
C35_AsStated ==
  \A n \in 1..Len(compiled) :
    LET fn == compiled[n] IN
    /\ fn.inputs # <<>> <=>
         /\ Len(fn.body) = 1
         /\ Len(ToWatch(fn)) = 1
         /\ ToWatch(fn)[1] # fn.body[1]
    /\ fn.inputs # <<>> => fn.inputs = ToWatch(fn)

\* C35: a compiled expression has inputs if and only if its program has exactly
\* one statement whose toWatch is neither empty nor the statement alone; its
\* inputs are then the toWatch nodes, in their order.
C35_GetInputs ==
  \A n \in 1..Len(compiled) :
    LET fn == compiled[n] IN
    /\ fn.inputs # <<>> <=>
         /\ Len(fn.body) = 1
         /\ ToWatch(fn) # <<>>
         /\ ToWatch(fn) # <<fn.body[1]>>
    /\ fn.inputs # <<>> => fn.inputs = ToWatch(fn)

\* 'a + b' has been compiled: two inputs
C35_Witness ==
  /\ compiled # <<>>
  /\ Len(compiled[1].body) = 1
  /\ compiled[1].body[1].type = "BinaryExpression"
  /\ Len(compiled[1].inputs) = 2

-----------------------------------------------------------------------------
(* Programs for the short-circuit of $$digestOnce: watch functions that     *)
(* only read a property, listeners that assign, defer a task that assigns,  *)
(* register a watcher or call a destructor.                                 *)

InitShort ==
  /\ InitRoot
  /\ data = <<0, 0, 0>>

ListenersShort ==
  {None, E("copy", 2, 1), E("evalAsync", 0, 5), E("watch", 2, 1), E("rm", 1, 0)}

DefsShort == { Def(g, None, fn, FALSE) : g \in 1..2, fn \in ListenersShort }

ValuesShort == {0, 1}

NextShort ==
  \/ RunDigest
  \/ \E d \in DefsShort : Watch(ROOT, d)
  \/ \E v \in ValuesShort : SetData(1, v)
  \/ DigestCall(ROOT)

SpecShort == InitShort /\ [][NextShort]_vars

\* watcher w would be found dirty if it were evaluated now
Dirty(w) == ~areEqual(WatchValue(w), last[w], wdef[w].valueEq)

\* the watchers attached to the subtree of s
Digested(s) == UNION {WatchersOf(x) : x \in {y \in Scopes : Attached(y, s)}}

\* the step that ends a pass at the clean watcher equal to $$lastDirtyWatch
ShortCircuits ==
  /\ ~Idle
  /\ top.kind = "digest" /\ top.pc = "getRet"
  /\ Len(stack') = Len(stack)
  /\ stack'[Len(stack')].pc = "passEnd"

Registers == Len(wdef') > Len(wdef)

Removes ==
  \E x \in Scopes : ~scope[x].destroyed /\ ~scope'[x].destroyed
                      /\ Len(scope'[x].watchers) < Len(scope[x].watchers)

\* where the short circuit stops a pass, no watcher of the digested subtree is
\* dirty: the turns it leaves out would have invoked no listener
NothingLeftOut == ShortCircuits => \A w \in Digested(top.this) : ~Dirty(w)

ResetsLastDirtyWatch == (Registers \/ Removes) => lastDirtyWatch' = 0

\* C33: with watch functions that only read, a pass that stops at the clean
\* watcher equal to $root.$$lastDirtyWatch leaves out no turn that would have
\* invoked a listener (so the digest invokes the listeners a digest without the
\* short circuit invokes, and does not end with a dirty watcher because of it),
\* and registering or removing a watcher sets $root.$$lastDirtyWatch to null.
C33_ShortCircuit == [][NothingLeftOut /\ ResetsLastDirtyWatch]_vars

C33_Resets == [][ResetsLastDirtyWatch]_vars

\* C34: a watcher registered by a watchFn or listener while a pass of $digest is
\* running is not evaluated in the rest of that pass.
C34_NotInPass == (Bottom /\ top.pc = "get") => top.w \notin hist.born

\* C36: when $digest has returned normally (nothing queued, nothing done since),
\* every watcher attached to the digested subtree has been evaluated and is
\* clean: the value of its watchFn equals its stored last value.
C36_Clean ==
  (Idle /\ hist.quiet # 0) =>
    \A w \in Digested(hist.quiet) : last[w] # INIT_WATCH_VALUE /\ ~Dirty(w)

-----------------------------------------------------------------------------
(* Programs that call the destroyers of $on any number of times, with a     *)
(* listener function registered once or several times.                      *)

InitOff ==
  /\ InitRoot
  /\ data = <<0, 0, 0>>

NextOff ==
  \/ RunEmit
  \/ \E eventName \in EventNames : OnCall(ROOT, eventName, None)
  \/ \E l \in 1..Len(ldef) : OnSame(l)
  \/ \E l \in 1..Len(ldef) : OffCall(l)
  \/ \E eventName \in EventNames : EmitCall(ROOT, eventName)

SpecOff == InitOff /\ [][NextOff]_vars

\* the slots of the array of registration l that hold its function
SlotsOf(l) ==
  LET arr == scope[ldef[l].s].listeners[ldef[l].name]
  IN {i \in 1..Len(arr) : HoldsListener(arr[i], l)}

\* the registrations of that function, for that event on that scope, whose
\* destroyer has not been called
LiveOf(l) ==
  {k \in 1..Len(ldef) : /\ ldef[k].s = ldef[l].s
                        /\ ldef[k].name = ldef[l].name
                        /\ ldef[k].of = ldef[l].of
                        /\ k \notin hist.offed}

\* a destroyer takes out the very slot its call of $on filled
OwnSlot ==
  \A l \in 1..Len(ldef) :
    IndexOf(scope[ldef[l].s].listeners[ldef[l].name], l) > 0 <=> l \notin hist.offed

\* C38: the destroyer returned by $on removes the registration that made it and
\* no other, however often it is called: a listener function stays registered
\* as many times as it has registrations whose destroyer was not called.
C38_OnlyItsOwn ==
  \A l \in 1..Len(ldef) : Cardinality(SlotsOf(l)) = Cardinality(LiveOf(l))

\* the first pass of the $digest the application called is over
FirstPassOver == Bottom /\ top.pc = "passEnd" /\ top.ttl = TTL

\* every watcher of a scope still attached to the digested subtree was evaluated
WalkedAll == FirstPassOver => Digested(top.this) \subseteq hist.seen

\* the $broadcast the application called is about to return
BroadcastOver ==
  /\ BottomEvent("broadcast")
  /\ top.pc = "children"
  /\ Len(top.walk) = 1
  /\ top.walk[1].k >= top.walk[1].n

\* every listener of the event on a scope still attached to the subtree was called
HeardAll ==
  BroadcastOver =>
    RegisteredOn(PreOrder(top.this), Len(PreOrder(top.this)), top.name)
      \subseteq hist.heard[1]

\* C39: the walk of $$digestOnce and of $broadcast visits every scope of the
\* subtree that is still attached, also when a watcher or listener destroys a
\* scope during the walk: no later sibling is skipped.
C39_NoSkip == WalkedAll /\ HeardAll

-----------------------------------------------------------------------------
(* Programs whose event listeners register listeners: a listener does        *)
(* nothing, or calls $on with itself for the event and the scope it is       *)
(* called for.                                                               *)

InitLoop ==
  /\ InitRoot
  /\ data = <<0, 0, 0>>

\* const listener = (event) => event.currentScope.$on(event.name, listener)
ListenersLoop == {None} \cup {E("on", SomeEvent, k) : k \in 1..MaxListeners}

NextLoop ==
  \/ RunEmit
  \/ RunBroadcast
  \/ ldef = <<>> /\ Len(scope) < MaxFlat /\ \E isolate \in BOOLEAN : New(ROOT, isolate, ROOT)
  \/ \E sc \in Scopes, fn \in ListenersLoop :
       /\ Len(ldef) < MaxPending
       /\ fn.op = "on" => fn.b = Len(ldef) + 1
       /\ OnCall(sc, SomeEvent, fn)
  \/ \E sc \in Scopes : EmitCall(sc, SomeEvent)
  \/ \E sc \in Scopes : BroadcastCall(sc, SomeEvent)

\* a call that is running goes on: JavaScript runs it to completion
SpecLoop ==
  InitLoop /\ [][NextLoop]_vars /\ WF_vars(RunEmit) /\ WF_vars(RunBroadcast)

\* no registration is called twice by one $emit or $broadcast
OncePerDispatch == Fires => Fired \notin hist.heard[Len(stack)]

Remaining == Len(FireArray(top)) - top.idx

\* a call of a listener that registers itself leaves the loop as far from the end
\* of the array as it was
StaysAway == [][(Fires /\ ldef[Fired].fn.op = "on") => Remaining' = Remaining]_vars

====
